---- MODULE Spec2Model ----
(***************************************************************************)
(* FinInsightAI: the categorization rule engine (hooks/useSessionData.ts), *)
(* the locale parsers and the row-to-transaction mapper (utils/parser.ts)  *)
(* and the file import handler of App.tsx.                                 *)
(*                                                                         *)
(* Strings are sequences of one-character strings, so that substring       *)
(* search, case folding, splitting and padding are computed and not        *)
(* assumed.  Numbers produced by parseFloat are exact decimals             *)
(* [nan, neg, num, den] with value (-1)^neg * num / den.                   *)
(***************************************************************************)
EXTENDS Integers, Sequences, FiniteSets, TLC

VARIABLES
    pc,            \* position of the scenario being run
    transactions,  \* Transaction[]: the transactions of the active session
    rules,         \* CategorizationRule[]: the rules of the active session
    applied,       \* outcome of applyRulesToTransactions(transactions, rules)
    reapplied,     \* outcome of applying the same rules to applied
    reordered,     \* [at, rules]: rules with the neighbours at, at + 1 exchanged
    appliedReordered, \* outcome of applyRulesToTransactions(transactions, reordered)
    rawData,       \* string[][]: the data rows handed to parseMappedData
    mapping,       \* ColumnMapping
    settings,      \* ImportSettings
    parsed,        \* outcome of parseMappedData: [success, failed]
    now,           \* Date.now(), in milliseconds
    host,          \* what the host's Date does with a string outside the ISO format
    categories,    \* string[]: the categories of the active session
    upload,        \* the file uploads waiting for their FileReader (at most one)
    args,          \* the arguments a function was called with
    ret,           \* [of, value]: what the call returned
    ruleApplicationStatus, \* the progress the modal shows: none, or one record
    bulk,          \* the locals of a running handleApplyRulesToExisting
    isCategorizing, \* useState(false) of App
    aiCall,        \* the last call of categorizeTransactionsAI: none, or one record
    inactive,      \* Transaction[]: the transactions of a session that is not active
    step,          \* ImportStep of the import wizard
    result,        \* [success, failed]: the result list of the wizard
    wiz,           \* the locals of the last handleStartProcessing: none, or one record
    log,           \* the calls handleStartProcessing has made, in their order
    assets,        \* Asset[] of the active session
    goals,         \* Goal[] of the active session
    dashboardWidgets, \* DashboardWidget[] of the active session
    rnd,           \* how many numbers Math.random has handed out
    sessions,      \* Session[]: the session list of the hook
    activeSessionId, \* useState('default-session') of the hook
    sanitizationProposal, \* useState(null) of App: none, or one record
    sanitizationResult, \* useState(null) of App: none, or one record
    isGeneratingRules, \* useState(false) of App
    generation,    \* the locals of a running handleGenerateRules: none, or one record
    bulkUpdateProposal \* useState(null) of App: none, or one record

\* The variables of the rule engine scenarios, of the mapper scenarios and of
\* the calls of single functions
engineVars == <<applied, reapplied, reordered, appliedReordered>>
mapperVars == <<rawData, mapping, parsed>>
callVars == <<args, ret>>
\* The variables of the bulk re-application of the rules
bulkVars == <<ruleApplicationStatus, bulk>>

\* The variables of the AI categorization
aiVars == <<isCategorizing, aiCall, inactive>>

\* The variables of the import wizard
wizardVars == <<step, result, wiz, log>>

\* The variables of the session merge
mergeVars == <<assets, goals, dashboardWidgets, rnd>>

\* The variables of the session list
sessionVars == <<sessions, activeSessionId>>

\* The variables of the category clean-up and of the rule generation
appVars == <<sanitizationProposal, sanitizationResult, isGeneratingRules,
             generation, bulkUpdateProposal>>

vars == <<pc, transactions, rules, applied, reapplied, reordered,
          appliedReordered, rawData, mapping, settings, parsed, now, host,
          categories, upload, callVars, bulkVars, aiVars, wizardVars, mergeVars,
          sessionVars, appVars>>

----------------------------------------------------------------------------
(* Bounds of the model.                                                    *)

MaxTransactions == 2
MaxRules == 2
MaxRows == 2
MaxClock == 2

----------------------------------------------------------------------------
(* Strings.                                                                *)

None == "none"                 \* no value yet
\* Values that are not strings, as one-element sequences no string of
\* characters equals
Undefined == <<"undefined">>   \* JavaScript undefined (a missing cell)
Null == <<"null">>             \* JavaScript null

\* No function call is under way
NoCall == args = <<>> /\ ret = <<>>

\* No clean-up is proposed and no rule generation is under way
NoApp ==
    /\ sanitizationProposal = <<>>
    /\ sanitizationResult = <<>>
    /\ isGeneratingRules = FALSE
    /\ generation = <<>>
    /\ bulkUpdateProposal = <<>>

\* No modal of App covers the page
NoModal ==
    /\ sanitizationProposal = <<>>
    /\ sanitizationResult = <<>>
    /\ bulkUpdateProposal = <<>>

\* The session list is not part of the scenario
NoSessions == sessions = <<>> /\ activeSessionId = None

\* A session without assets, goals and widgets
NoMerge == assets = <<>> /\ goals = <<>> /\ dashboardWidgets = <<>> /\ rnd = 0

\* The import wizard as it is opened
NoWizard ==
    /\ step = "upload"
    /\ result = [success |-> <<>>, failed |-> <<>>]
    /\ wiz = <<>>
    /\ log = <<>>

\* No AI categorization was asked for, and there is no second session
NoAi == isCategorizing = FALSE /\ aiCall = <<>> /\ inactive = <<>>

\* No bulk re-application is under way and its modal is closed
NoBulk == ruleApplicationStatus = <<>> /\ bulk = <<>>

UpperCase == <<"A","B","C","D","E","F","G","H","I","J","K","L","M",
               "N","O","P","Q","R","S","T","U","V","W","X","Y","Z">>
LowerCase == <<"a","b","c","d","e","f","g","h","i","j","k","l","m",
               "n","o","p","q","r","s","t","u","v","w","x","y","z">>

ToLowerChar(c) ==
    IF \E i \in 1..26 : UpperCase[i] = c
    THEN LowerCase[CHOOSE i \in 1..26 : UpperCase[i] = c]
    ELSE c

\* String.prototype.toLowerCase
toLowerCase(s) == [i \in 1..Len(s) |-> ToLowerChar(s[i])]

\* String.prototype.includes: k occurs in s as a contiguous substring
includes(s, k) ==
    \E i \in 0..(Len(s) - Len(k)) : SubSeq(s, i + 1, i + Len(k)) = k

\* Sequences over S of length at most n
SeqsUpTo(S, n) == UNION {[1..k -> S] : k \in 0..n}

----------------------------------------------------------------------------
(* Regular expressions: the fragment with literal characters, "." and an   *)
(* opening parenthesis.  new RegExp(p, 'i') throws a SyntaxError on an     *)
(* unterminated group; the alphabet has no ")" so every "(" is one.        *)

RegExpCompiles(p) == \A i \in 1..Len(p) : p[i] # "("

\* RegExp.prototype.test with flag i, unanchored: some window of s matches p
RegExpTest(p, s) ==
    \E i \in 0..(Len(s) - Len(p)) :
        \A j \in 1..Len(p) :
            \/ p[j] = "."
            \/ ToLowerChar(p[j]) = ToLowerChar(s[i + j])

----------------------------------------------------------------------------
(* The categorization rule engine.                                         *)

UNCATEGORIZED == <<"U","n","c","a","t","e","g","o","r","i","z","e","d">>
Food == <<"F","o","o","d">>
Transport == <<"T","r","a","n","s","p","o","r","t">>

\* Variant: a literal keyword is searched in the description and the category
RuleTestHaystackWithCategory(r, t) ==
    IF r.isRegex
    THEN IF RegExpCompiles(r.keyword)
         THEN IF RegExpTest(r.keyword, t.description) THEN "match" ELSE "nomatch"
         ELSE "nomatch"
    ELSE IF includes(toLowerCase(t.description \o <<" ">> \o t.category),
                     toLowerCase(r.keyword))
         THEN "match" ELSE "nomatch"

\* Variant: new RegExp without the try/catch around it
RuleTestNoCatch(r, t) ==
    IF r.isRegex
    THEN IF RegExpCompiles(r.keyword)
         THEN IF RegExpTest(r.keyword, t.description) THEN "match" ELSE "nomatch"
         ELSE "throw"
    ELSE IF includes(toLowerCase(t.description), toLowerCase(r.keyword))
         THEN "match" ELSE "nomatch"

\* The predicate of sortedRules.find: "match", "nomatch", or "throw" when an
\* exception leaves it.  The catch block turns the SyntaxError of an invalid
\* pattern into false.
RuleTest(r, t) ==
    IF r.isRegex
    THEN IF RegExpCompiles(r.keyword)
         THEN IF RegExpTest(r.keyword, t.description) THEN "match" ELSE "nomatch"
         ELSE "nomatch"
    ELSE IF includes(toLowerCase(t.description), toLowerCase(r.keyword))
         THEN "match" ELSE "nomatch"

\* Place of rs[i] after the stable sort by descending keyword length
SortRank(rs, i) ==
    1 + Cardinality({j \in 1..Len(rs) :
            \/ Len(rs[j].keyword) > Len(rs[i].keyword)
            \/ Len(rs[j].keyword) = Len(rs[i].keyword) /\ j < i})

\* Variant: the rules are not sorted
sortedRulesInsertionOrder(rs) == rs

\* Variant: a sort that is not stable, equally long keywords end up reversed
sortedRulesTiesReversed(rs) ==
    LET rank(i) == 1 + Cardinality({j \in 1..Len(rs) :
                          \/ Len(rs[j].keyword) > Len(rs[i].keyword)
                          \/ Len(rs[j].keyword) = Len(rs[i].keyword) /\ j > i})
    IN  [p \in 1..Len(rs) |-> rs[CHOOSE i \in 1..Len(rs) : rank(i) = p]]

\* [...rules].sort((a, b) => b.keyword.length - a.keyword.length)
sortedRules(rs) ==
    [p \in 1..Len(rs) |-> rs[CHOOSE i \in 1..Len(rs) : SortRank(rs, i) = p]]

\* Array.prototype.find: the index of the first rule whose test is "match",
\* 0 when there is none, -1 when a test throws before that
FindRule(sorted, t) ==
    LET hit(i) == RuleTest(sorted[i], t) = "match"
        first == IF \E i \in 1..Len(sorted) : hit(i)
                 THEN CHOOSE i \in 1..Len(sorted) :
                          hit(i) /\ \A j \in 1..(i - 1) : ~hit(j)
                 ELSE 0
        last == IF first = 0 THEN Len(sorted) ELSE first
    IN  IF \E j \in 1..last : RuleTest(sorted[j], t) = "throw" THEN -1 ELSE first

\* matchingRule ? { ...t, category: matchingRule.category } : t
Recategorize(t, sorted) ==
    LET m == FindRule(sorted, t)
    IN  IF m > 0 THEN [t EXCEPT !.category = sorted[m].category] ELSE t

\* transactions.map over the sorted rules
MapTransactions(txs, sorted) ==
    IF \E i \in 1..Len(txs) : FindRule(sorted, txs[i]) = -1
    THEN [threw |-> TRUE, value |-> <<>>]
    ELSE [threw |-> FALSE,
          value |-> [i \in 1..Len(txs) |-> Recategorize(txs[i], sorted)]]

\* applyRulesToTransactions: [threw, value]; threw when an exception leaves it
applyRulesToTransactions(txs, rs) ==
    IF Len(rs) = 0 THEN [threw |-> FALSE, value |-> txs]
    ELSE MapTransactions(txs, sortedRules(rs))

----------------------------------------------------------------------------
(* Inputs of the rule engine.                                              *)

RuleKeywords == { <<"a">>, <<"B">>, <<"a", ".">>, <<"(">> }
RuleCategories == { Food, Transport }
\* description and category of the transactions the rules are applied to
Described == { << <<"A", "b">>, UNCATEGORIZED >>, << <<"b", "(">>, Food >> }

SampleDate == <<"2","0","2","3","-","1","0","-","0","5">>
SampleAmount == [nan |-> FALSE, neg |-> FALSE, num |-> 150, den |-> 1]

CategorizationRule ==
    [keyword : RuleKeywords, category : RuleCategories, isRegex : BOOLEAN]

ManualTransaction(i, d, c) ==
    [id |-> <<"manual", i>>, date |-> SampleDate, description |-> d,
     amount |-> SampleAmount, type |-> "EXPENSE", category |-> c,
     source |-> "Manual Entry"]

TransactionLists ==
    UNION {{[i \in 1..n |-> ManualTransaction(i, f[i][1], f[i][2])] :
               f \in [1..n -> Described]} :
           n \in 0..MaxTransactions}

RuleLists == SeqsUpTo(CategorizationRule, MaxRules)

NoOutcome == [threw |-> FALSE, value |-> None]

InitRules ==
    /\ pc = "input"
    /\ transactions \in TransactionLists
    /\ rules \in RuleLists
    /\ applied = NoOutcome
    /\ reapplied = NoOutcome
    /\ reordered = None
    /\ appliedReordered = NoOutcome
    /\ rawData = <<>>
    /\ mapping = None
    /\ settings = None
    /\ parsed = None
    /\ now = 0
    /\ host = None
    /\ categories = <<>>
    /\ upload = <<>>
    /\ NoCall
    /\ NoBulk
    /\ NoAi
    /\ NoWizard
    /\ NoMerge
    /\ NoSessions
    /\ NoApp

\* Variant: the rules are sorted in the array that was handed over
RulesAfterApplySortedInPlace(rs) == sortedRules(rs)

\* The rules array after the call: the sort works on the copy [...rules]
RulesAfterApply(rs) == rs

\* The rules are applied to the session's transactions
ApplyRules ==
    /\ pc = "input"
    /\ applied' = applyRulesToTransactions(transactions, rules)
    /\ rules' = RulesAfterApply(rules)
    /\ pc' = "applied"
    /\ UNCHANGED <<transactions, reapplied, reordered, appliedReordered,
                   rawData, mapping, settings, parsed, now, host,
                   categories, upload,
                   callVars,
                   bulkVars,
                   aiVars,
                   wizardVars,
                   mergeVars,
                   sessionVars,
                   appVars>>

\* The same rules are applied again to the result
ReapplyRules ==
    /\ pc = "applied"
    /\ ~applied.threw
    /\ reapplied' = applyRulesToTransactions(applied.value, rules)
    /\ pc' = "reapplied"
    /\ UNCHANGED <<transactions, rules, applied, reordered, appliedReordered,
                   rawData, mapping, settings, parsed, now, host,
                   categories, upload,
                   callVars,
                   bulkVars,
                   aiVars,
                   wizardVars,
                   mergeVars,
                   sessionVars,
                   appVars>>

\* The same rules, two neighbours exchanged, are applied to the same input
ApplyReordered ==
    /\ pc = "applied"
    /\ \E k \in 1..(Len(rules) - 1) :
          reordered' = [at |-> k,
                        rules |-> [i \in 1..Len(rules) |->
                                      IF i = k THEN rules[k + 1]
                                      ELSE IF i = k + 1 THEN rules[k] ELSE rules[i]]]
    /\ appliedReordered' = applyRulesToTransactions(transactions, reordered'.rules)
    /\ pc' = "reordered"
    /\ UNCHANGED <<transactions, rules, applied, reapplied,
                   rawData, mapping, settings, parsed, now, host,
                   categories, upload,
                   callVars,
                   bulkVars,
                   aiVars,
                   wizardVars,
                   mergeVars,
                   sessionVars,
                   appVars>>

NextRules == ApplyRules \/ ReapplyRules \/ ApplyReordered

SpecRules == InitRules /\ [][NextRules]_vars

\* Indices of the rules whose test matches t
Matching(rs, t) == {i \in 1..Len(rs) : RuleTest(rs[i], t) = "match"}

\* C1: applying the same rules to the result of a rule application changes
\* nothing: applyRules(applyRules(T, R), R) = applyRules(T, R).
C1_Idempotent ==
    pc = "reapplied" => reapplied = applied

C1_Witness ==
    /\ pc = "reapplied"
    /\ applied.value # transactions
    /\ \E i \in 1..Len(transactions) : Cardinality(Matching(rules, transactions[i])) >= 2

\* C2: the category assigned to a transaction is that of a matching rule whose
\* keyword is at least as long as the keyword of every other matching rule; so
\* of two matching rules with keywords of different lengths the longer one
\* wins, whichever comes first in the rule list.
C2_LongerKeywordWins ==
    pc = "applied" /\ ~applied.threw =>
        \A i \in 1..Len(transactions) :
            LET M == Matching(rules, transactions[i])
                longest == {a \in M : \A b \in M :
                               Len(rules[a].keyword) >= Len(rules[b].keyword)}
            IN  /\ M # {} => \E a \in longest :
                                applied.value[i].category = rules[a].category
                /\ \A a, b \in M :
                      (M = {a, b} /\ Len(rules[a].keyword) > Len(rules[b].keyword))
                          => applied.value[i].category = rules[a].category

C2_Witness ==
    /\ pc = "applied"
    /\ \E i \in 1..Len(transactions) :
          /\ Matching(rules, transactions[i]) = {1, 2}
          /\ Len(rules[1].keyword) < Len(rules[2].keyword)
          /\ rules[1].category # rules[2].category
          /\ applied.value[i].category = rules[2].category

\* C3 as stated: the result does not depend on the order of the rules:
\* exchanging two neighbouring rules (every permutation is a chain of such
\* exchanges) gives the same result, also when their keywords are equally long.
C3_OrderIndependent ==
    pc = "reordered" => appliedReordered = applied

\* C3 amended: the result does not depend on the order of rules whose keywords
\* differ in length: exchanging two neighbouring rules with keywords of
\* different lengths gives the same result (so does every permutation that
\* keeps the relative order of the rules with equally long keywords); among
\* the matching rules with the longest keyword the first of the list wins.
C3_OrderIndependentUpToTies ==
    /\ pc = "reordered" =>
          (Len(rules[reordered.at].keyword) # Len(rules[reordered.at + 1].keyword)
              => appliedReordered = applied)
    /\ (pc = "applied" /\ ~applied.threw) =>
          \A i \in 1..Len(transactions) :
              LET M == Matching(rules, transactions[i])
                  longest == {a \in M : \A b \in M :
                                 Len(rules[a].keyword) >= Len(rules[b].keyword)}
              IN  M # {} =>
                     applied.value[i].category =
                         rules[CHOOSE a \in longest : \A b \in longest : a <= b].category

C3_Witness ==
    /\ pc = "reordered"
    /\ Len(rules[reordered.at].keyword) < Len(rules[reordered.at + 1].keyword)
    /\ rules[reordered.at].category # rules[reordered.at + 1].category
    /\ \E i \in 1..Len(transactions) :
          /\ Matching(rules, transactions[i]) = {reordered.at, reordered.at + 1}
          /\ appliedReordered.value[i].category = rules[reordered.at + 1].category
          /\ appliedReordered.value[i].category # transactions[i].category

\* C4: a regex rule whose keyword does not compile never makes rule
\* application throw, never matches, and the other rules are still evaluated:
\* every transaction gets the category the rule list without the invalid
\* rules gives it.
ValidRules(rs) ==
    LET keep == {i \in 1..Len(rs) : ~(rs[i].isRegex /\ ~RegExpCompiles(rs[i].keyword))}
        nth(p) == CHOOSE i \in keep : Cardinality({j \in keep : j < i}) = p - 1
    IN  [p \in 1..Cardinality(keep) |-> rs[nth(p)]]

C4_InvalidRegexIgnored ==
    pc = "applied" =>
        /\ ~applied.threw
        /\ \A i \in 1..Len(transactions) : \A k \in 1..Len(rules) :
              (rules[k].isRegex /\ ~RegExpCompiles(rules[k].keyword))
                  => RuleTest(rules[k], transactions[i]) = "nomatch"
        /\ applied = applyRulesToTransactions(transactions, ValidRules(rules))

C4_Witness ==
    /\ pc = "applied"
    /\ Len(transactions) = 2
    /\ Len(rules) = 2
    /\ rules[1].isRegex /\ ~RegExpCompiles(rules[1].keyword)
    /\ \A i \in 1..2 : /\ applied.value[i].category = rules[2].category
                       /\ transactions[i].category # rules[2].category

----------------------------------------------------------------------------
(* Numbers and their decimal notation.                                     *)

Digits == <<"0","1","2","3","4","5","6","7","8","9">>
IsDigit(c) == \E i \in 1..10 : Digits[i] = c
DigitValue(c) == (CHOOSE i \in 1..10 : Digits[i] = c) - 1

RECURSIVE Pow10(_)
Pow10(k) == IF k = 0 THEN 1 ELSE 10 * Pow10(k - 1)

\* The value of a sequence of digits (0 for the empty one)
RECURSIVE DigitsToInt(_)
DigitsToInt(ds) ==
    IF ds = <<>> THEN 0
    ELSE 10 * DigitsToInt(SubSeq(ds, 1, Len(ds) - 1)) + DigitValue(ds[Len(ds)])

\* The decimal notation of n >= 0
RECURSIVE IntToDigits(_)
IntToDigits(n) ==
    IF n < 10 THEN <<Digits[n + 1]>>
    ELSE IntToDigits(n \div 10) \o <<Digits[(n % 10) + 1]>>

\* String.prototype.padStart(n, c)
RECURSIVE padStart(_, _, _)
padStart(s, n, c) == IF Len(s) >= n THEN s ELSE padStart(<<c>> \o s, n, c)

\* Length of the longest prefix of s made of digits
RECURSIVE DigitRun(_)
DigitRun(s) ==
    IF s # <<>> /\ IsDigit(s[1]) THEN 1 + DigitRun(Tail(s)) ELSE 0

\* String.prototype.trim (the only white space of the model is " ")
RECURSIVE trim(_)
trim(s) ==
    IF s = <<>> THEN s
    ELSE IF s[1] = " " THEN trim(Tail(s))
    ELSE IF s[Len(s)] = " " THEN trim(SubSeq(s, 1, Len(s) - 1))
    ELSE s

\* String.prototype.split on a one-character separator
RECURSIVE split(_, _)
split(s, sep) ==
    IF \E i \in 1..Len(s) : s[i] = sep
    THEN LET k == CHOOSE i \in 1..Len(s) :
                     s[i] = sep /\ \A j \in 1..(i - 1) : s[j] # sep
         IN  <<SubSeq(s, 1, k - 1)>> \o split(SubSeq(s, k + 1, Len(s)), sep)
    ELSE <<s>>

\* s with every occurrence of the character c removed
RemoveAll(s, c) == SelectSeq(s, LAMBDA x : x # c)

\* String.prototype.replace(a, b) with a string pattern: the first a only
ReplaceFirst(s, a, b) ==
    IF \E i \in 1..Len(s) : s[i] = a
    THEN LET k == CHOOSE i \in 1..Len(s) :
                     s[i] = a /\ \A j \in 1..(i - 1) : s[j] # a
         IN  [s EXCEPT ![k] = b]
    ELSE s

NaN == [nan |-> TRUE, neg |-> FALSE, num |-> 0, den |-> 1]
Zero == [nan |-> FALSE, neg |-> FALSE, num |-> 0, den |-> 1]

\* s without its trailing "0" characters
RECURSIVE StripTrailingZeros(_)
StripTrailingZeros(s) ==
    IF s # <<>> /\ s[Len(s)] = "0"
    THEN StripTrailingZeros(SubSeq(s, 1, Len(s) - 1)) ELSE s

\* parseFloat on a string without white space and without "e": the longest
\* prefix of the form [-] digits [. digits] or [-] . digits, NaN without one
parseFloat(s) ==
    LET neg == s # <<>> /\ s[1] = "-"
        body == IF neg \/ (s # <<>> /\ s[1] = "+") THEN Tail(s) ELSE s
        ni == DigitRun(body)
        rest == SubSeq(body, ni + 1, Len(body))
        nf == IF rest # <<>> /\ rest[1] = "." THEN DigitRun(Tail(rest)) ELSE 0
        frac == StripTrailingZeros(SubSeq(rest, 2, nf + 1))
    IN  IF ni = 0 /\ nf = 0 THEN NaN
        ELSE [nan |-> FALSE, neg |-> neg,
              num |-> DigitsToInt(SubSeq(body, 1, ni) \o frac),
              den |-> Pow10(Len(frac))]

isNaN(x) == x.nan
\* Math.abs
abs(x) == [x EXCEPT !.neg = FALSE]
IsZero(x) == ~x.nan /\ x.num = 0
IsPositive(x) == ~x.nan /\ ~x.neg /\ x.num > 0

----------------------------------------------------------------------------
(* Dates.                                                                  *)

IsLeap(y) == (y % 4 = 0 /\ y % 100 # 0) \/ y % 400 = 0
DaysInMonth(y, m) ==
    IF m = 2 THEN (IF IsLeap(y) THEN 29 ELSE 28)
    ELSE IF m \in {4, 6, 9, 11} THEN 30 ELSE 31

\* The calendar date of the day `days` days after 1970-01-01 (proleptic
\* Gregorian calendar, as Date uses)
CivilFromDays(days) ==
    LET z == days + 719468
        era == z \div 146097
        doe == z - era * 146097
        yoe == (doe - doe \div 1460 + doe \div 36524 - doe \div 146096) \div 365
        doy == doe - (365 * yoe + yoe \div 4 - yoe \div 100)
        mp == (5 * doy + 2) \div 153
        d == doy - (153 * mp + 2) \div 5 + 1
        m == IF mp < 10 THEN mp + 3 ELSE mp - 9
        y == yoe + era * 400 + (IF m <= 2 THEN 1 ELSE 0)
    IN  [year |-> y, month |-> m, day |-> d]

\* date.toISOString().split('T')[0]: YYYY-MM-DD, the year in the expanded
\* form (a sign and six digits) outside 0..9999
IsoDatePart(c) ==
    LET yyyy == IF c.year \in 0..9999 THEN padStart(IntToDigits(c.year), 4, "0")
                ELSE IF c.year < 0
                     THEN <<"-">> \o padStart(IntToDigits(-c.year), 6, "0")
                     ELSE <<"+">> \o padStart(IntToDigits(c.year), 6, "0")
    IN  yyyy \o <<"-">> \o padStart(IntToDigits(c.month), 2, "0")
             \o <<"-">> \o padStart(IntToDigits(c.day), 2, "0")

\* The largest day offset from 1970-01-01 a Date can hold (8.64e15 ms)
MaxDateDays == 100000000
ExcelEpochSerial == 25569

\* Number(cleanStr) for a string of the form [-] digits [e [-] digits] with
\* fewer than 8 characters, as the day the serial branch of parseDate lands
\* on: [nan, inf, floor], floor the whole days of the number, inf for a
\* magnitude too large for a Date.  Every other string without "." and "/"
\* that the model draws is not a number.
NotANumber == [nan |-> TRUE, inf |-> FALSE, floor |-> 0]
TooLarge == [nan |-> FALSE, inf |-> TRUE, floor |-> 0]
WholeDays(f) == [nan |-> FALSE, inf |-> FALSE, floor |-> f]

\* m * 10^e with the sign neg
TimesPow10(neg, m, e) ==
    IF m = 0 \/ e = 0 THEN WholeDays(IF neg THEN -m ELSE m)
    ELSE IF Len(IntToDigits(m)) + e > 9 THEN TooLarge
    ELSE WholeDays(IF neg THEN -(m * Pow10(e)) ELSE m * Pow10(e))

\* m / 10^e with the sign neg, rounded down to whole days.  Math.round of
\* the milliseconds takes a time less than half a millisecond before
\* midnight (2 * m * 86400 * 1000 <= 10^e) to that midnight.
OverPow10(neg, m, e) ==
    IF m = 0 \/ e = 0 THEN WholeDays(IF neg THEN -m ELSE m)
    ELSE IF ~neg THEN WholeDays(IF e > 9 THEN 0 ELSE m \div Pow10(e))
    ELSE IF e >= 12 \/ (e >= 9 /\ 2 * m * 864 <= Pow10(e - 5)) THEN WholeDays(0)
    ELSE IF e > 9 THEN WholeDays(-1)
    ELSE WholeDays(-((m + Pow10(e) - 1) \div Pow10(e)))

\* the digits of the exponent
NumberExponent(neg, m, eneg, ebody) ==
    IF ebody = <<>> \/ DigitRun(ebody) # Len(ebody) THEN NotANumber
    ELSE IF eneg THEN OverPow10(neg, m, DigitsToInt(ebody))
    ELSE TimesPow10(neg, m, DigitsToInt(ebody))

\* the digits before the exponent, ni of them, and what follows them
NumberMantissa(neg, body, ni) ==
    IF ni = 0 THEN NotANumber
    ELSE IF ni = Len(body) THEN TimesPow10(neg, DigitsToInt(body), 0)
    ELSE IF body[ni + 1] \notin {"e", "E"} \/ ni + 1 = Len(body) THEN NotANumber
    ELSE NumberExponent(neg, DigitsToInt(SubSeq(body, 1, ni)),
                        body[ni + 2] = "-",
                        IF body[ni + 2] \in {"-", "+"}
                        THEN SubSeq(body, ni + 3, Len(body))
                        ELSE SubSeq(body, ni + 2, Len(body)))

NumberUnsigned(neg, body) == NumberMantissa(neg, body, DigitRun(body))

\* Number("") is 0
NumberFloor(s) ==
    IF s = <<>> THEN WholeDays(0)
    ELSE NumberUnsigned(s[1] = "-", IF s[1] \in {"-", "+"} THEN Tail(s) ELSE s)

\* new Date(s) for the else branch of parseDate.  The forms YYYY, YYYY-MM and
\* YYYY-MM-DD of the ECMAScript date string format are read as UTC; what a
\* host does with any other string, or with a day past the end of the month,
\* is its own choice: h is that choice (Null for Invalid Date, or a date).
DateFromString(s, h) ==
    LET parts == split(s, "-")
        allDigits(p, n) == Len(p) = n /\ DigitRun(p) = n
        shape == /\ Len(parts) \in 1..3
                 /\ allDigits(parts[1], 4)
                 /\ \A i \in 2..Len(parts) : allDigits(parts[i], 2)
        y == DigitsToInt(parts[1])
        m == IF Len(parts) >= 2 THEN DigitsToInt(parts[2]) ELSE 1
        d == IF Len(parts) >= 3 THEN DigitsToInt(parts[3]) ELSE 1
    IN  IF ~shape THEN h
        ELSE IF m \notin 1..12 \/ d \notin 1..31 THEN Null
        ELSE IF d > DaysInMonth(y, m) THEN h
        ELSE IsoDatePart([year |-> y, month |-> m, day |-> d])

RangeError == <<"RangeError: Invalid time value">>

\* The serial branch: new Date(Math.round((n - 25569) * 86400 * 1000))
\* .toISOString(), which throws a RangeError on an invalid Date
SerialDate(n) ==
    IF n.inf \/ n.floor - ExcelEpochSerial > MaxDateDays
             \/ n.floor - ExcelEpochSerial < -MaxDateDays
    THEN RangeError
    ELSE IsoDatePart(CivilFromDays(n.floor - ExcelEpochSerial))

\* The condition of the serial branch
IsSerial(cleanStr) ==
    /\ ~includes(cleanStr, <<".">>) /\ ~includes(cleanStr, <<"/">>)
    /\ Len(cleanStr) < 8
    /\ ~NumberFloor(cleanStr).nan

\* if (year.length === 2) year = `20${year}`
FixYear(year) == IF Len(year) = 2 THEN <<"2", "0">> \o year ELSE year

\* The date of the three parts of a split, the day at place d and the month
\* at place m; null for any other number of parts
PartsDate(parts, d, m) ==
    IF Len(parts) = 3
    THEN FixYear(parts[3]) \o <<"-">> \o padStart(parts[m], 2, "0")
                           \o <<"-">> \o padStart(parts[d], 2, "0")
    ELSE Null

\* parseDate after the trim
parseDateClean(cleanStr, format, h) ==
    IF IsSerial(cleanStr) THEN SerialDate(NumberFloor(cleanStr))
    ELSE IF format = "DD.MM.YYYY" THEN PartsDate(split(cleanStr, "."), 1, 2)
    ELSE IF format = "MM/DD/YYYY" THEN PartsDate(split(cleanStr, "/"), 2, 1)
    ELSE DateFromString(cleanStr, h)

\* parseDate(dateStr, format): a string, Null, or RangeError when
\* toISOString throws on an invalid Date (the serial branch is outside the
\* try block)
parseDate(dateStr, format, h) ==
    IF dateStr = Undefined \/ dateStr = <<>> THEN Null
    ELSE parseDateClean(trim(dateStr), format, h)

----------------------------------------------------------------------------
(* Amounts.                                                                *)

AmountChars == {"0","1","2","3","4","5","6","7","8","9", ".", ",", "-"}

\* Variant: an empty or missing cell is not a number
parseAmountEmptyIsNaN(amountStr, decimalSeparator) ==
    IF amountStr = Undefined \/ amountStr = <<>> THEN NaN
    ELSE LET stripped == SelectSeq(trim(amountStr), LAMBDA c : c \in AmountChars)
             cleanStr == IF decimalSeparator = ","
                         THEN ReplaceFirst(RemoveAll(stripped, "."), ",", ".")
                         ELSE RemoveAll(stripped, ",")
         IN  parseFloat(cleanStr)

\* Variant: the separator setting is ignored, "." is the decimal point
parseAmountPointOnly(amountStr, decimalSeparator) ==
    IF amountStr = Undefined \/ amountStr = <<>> THEN Zero
    ELSE parseFloat(RemoveAll(SelectSeq(trim(amountStr), LAMBDA c : c \in AmountChars), ","))

\* parseAmount(amountStr, decimalSeparator) for a string or a missing cell
parseAmount(amountStr, decimalSeparator) ==
    IF amountStr = Undefined \/ amountStr = <<>> THEN Zero
    ELSE LET stripped == SelectSeq(trim(amountStr), LAMBDA c : c \in AmountChars)
             cleanStr == IF decimalSeparator = ","
                         THEN ReplaceFirst(RemoveAll(stripped, "."), ",", ".")
                         ELSE RemoveAll(stripped, ",")
         IN  parseFloat(cleanStr)

----------------------------------------------------------------------------
(* The row-to-transaction mapper.                                          *)

\* row[i] with the 0-based index i of a ColumnMapping; undefined outside
Cell(row, i) == IF i \in 0..(Len(row) - 1) THEN row[i + 1] ELSE Undefined

\* a value is truthy unless it is undefined or the empty string
Truthy(v) == v # Undefined /\ v # <<>>

IncomeTokens == { <<"i","n","c","o","m","e">>, <<"h","a","b","e","n">>,
                  <<"g","u","t","s","c","h","r","i","f","t">> }

Unknown == <<"U","n","k","n","o","w","n">>

\* Variant: a type cell without an income token leaves the choice to the sign
TransactionTypeSignWithoutToken(typeRaw, amount) ==
    IF Truthy(typeRaw) /\ \E tok \in IncomeTokens : includes(toLowerCase(typeRaw), tok)
    THEN "INCOME"
    ELSE IF IsPositive(amount) THEN "INCOME" ELSE "EXPENSE"

\* step 3 of a row: the type from the type column or from the sign
TransactionType(typeRaw, amount) ==
    IF Truthy(typeRaw)
    THEN IF \E tok \in IncomeTokens : includes(toLowerCase(typeRaw), tok)
         THEN "INCOME" ELSE "EXPENSE"
    ELSE IF IsPositive(amount) THEN "INCOME" ELSE "EXPENSE"

\* Variant: the amount keeps its sign
finalAmountSigned(amount) == amount

\* const finalAmount = Math.abs(amount)
finalAmount(amount) == abs(amount)

\* `imp-${Date.now()}-${index}`
ImportId(t, index) == <<"imp", t, index>>

\* The row after its cells are read and parsed: [ok, tx] after
\* success.push, [ok, failure] after the catch block's failed.push
RowOutcome(row, index, t, date, amount, descRaw, catRaw, typeRaw) ==
    IF date = RangeError \/ date = Null \/ isNaN(amount)
                         \/ IsZero(finalAmount(amount))
    THEN [ok |-> FALSE,
          failure |-> [row |-> index + 2, raw |-> row,
                       reason |-> IF date = RangeError THEN "Invalid time value"
                                  ELSE IF date = Null \/ isNaN(amount)
                                       THEN "Invalid Date or Amount"
                                  ELSE "Zero amount"]]
    ELSE [ok |-> TRUE,
          tx |-> [id |-> ImportId(t, index),
                  date |-> date,
                  description |-> IF Truthy(descRaw) THEN trim(descRaw) ELSE Unknown,
                  amount |-> finalAmount(amount),
                  type |-> TransactionType(typeRaw, amount),
                  category |-> IF Truthy(catRaw) THEN catRaw ELSE UNCATEGORIZED]]

\* The body of the forEach callback for one row
ProcessRow(row, index, m, st, t, h) ==
    RowOutcome(row, index, t,
               parseDate(Cell(row, m.dateIndex), st.dateFormat, h),
               parseAmount(Cell(row, m.amountIndex), st.decimalSeparator),
               Cell(row, m.descriptionIndex),
               IF m.categoryIndex >= 0 THEN Cell(row, m.categoryIndex) ELSE <<>>,
               IF m.typeIndex >= 0 THEN Cell(row, m.typeIndex) ELSE <<>>)

\* The members of the sequence s at the indices in I, in order
Pick(s, I) ==
    LET nth(p) == CHOOSE i \in I : Cardinality({j \in I : j < i}) = p - 1
    IN  [p \in 1..Cardinality(I) |-> s[nth(p)]]

\* success and failed, each in the order of the rows, from the outcomes of
\* the rows; a row is recorded in failed when its failure is in `recorded`
Collect(out, recorded) ==
    [success |-> Pick([i \in 1..Len(out) |-> IF out[i].ok THEN out[i].tx ELSE None],
                      {i \in 1..Len(out) : out[i].ok}),
     failed |-> Pick([i \in 1..Len(out) |-> IF out[i].ok THEN None ELSE out[i].failure],
                     {i \in 1..Len(out) : ~out[i].ok /\ out[i].failure.reason \in recorded})]

FailureReasons == {"Invalid time value", "Invalid Date or Amount", "Zero amount"}

\* Variant: a row with a zero amount is dropped without a failure record
parseMappedDataZeroDropped(data, m, st, t, h) ==
    Collect([i \in 1..Len(data) |-> ProcessRow(data[i], i - 1, m, st, t, h)],
            FailureReasons \ {"Zero amount"})

\* parseMappedData(rawData, mapping, settings) at the clock value t
parseMappedData(data, m, st, t, h) ==
    Collect([i \in 1..Len(data) |-> ProcessRow(data[i], i - 1, m, st, t, h)],
            FailureReasons)

----------------------------------------------------------------------------
(* Inputs of the mapper.                                                   *)

DateCells ==
    { <<"2","5",".","1","2",".","2","0","2","3">>,
      <<"1","2","/","2","5","/","2","3">>,
      <<"2","0","2","3","-","1","2","-","2","5">>,
      <<"1",".","2",".","3">>,
      <<>>,
      <<"4","5","0","0","0">>,
      <<"1","e","9","9">>,
      <<"n","/","a">> }

AmountCells ==
    { <<"-","1",".","2","3","4",",","5","6">>,
      <<"1",",","2","3","4",".","5","6">>,
      <<>>,
      <<"n","/","a">>,
      <<"0",",","0","0">>,
      <<"$","5">>,
      <<"-","0">> }

TypeCells ==
    { <<>>,
      <<"G","u","t","s","c","h","r","i","f","t">>,
      <<"S","o","l","l">> }

DescriptionCells ==
    { <<" ","A","b">>,
      <<>> }

CategoryCells == { <<>>, Food }

\* Rows of five columns: date, description, amount, type, category
RichRows ==
    { <<d, x, a, t, c>> : d \in DateCells, x \in DescriptionCells,
                          a \in AmountCells, t \in TypeCells, c \in CategoryCells }

\* Rows for batches of several rows, two of them short of columns
BatchRows ==
    { <<<<"2","5",".","1","2",".","2","0","2","3">>, <<"A","b">>, <<"-","1",".","2","3","4",",","5","6">>, <<>>, <<>>>>,
      <<<<"1",".","2",".","3">>, <<"A","b">>, <<"1","2",",","5">>, <<"G","u","t","s","c","h","r","i","f","t">>, <<"F","o","o","d">>>>,
      <<<<"2","5",".","1","2",".","2","0","2","3">>, <<"A","b">>, <<>>, <<"S","o","l","l">>, <<>>>>,
      <<<<>>, <<"A","b">>, <<"1","2",",","5">>>>,
      <<<<"1","e","9","9">>, <<"A","b">>, <<"1","2",",","5">>, <<"S","o","l","l">>, <<>>>>,
      <<<<"2","5",".","1","2",".","2","0","2","3">>, <<"A","b">>>>,
      <<<<"1","2","/","2","5","/","2","3">>, <<>>, <<"n","/","a">>, <<>>, <<>>>> }

ColumnMappings ==
    [dateIndex : {0}, descriptionIndex : {1}, amountIndex : {2},
     categoryIndex : {-1, 4}, typeIndex : {-1, 3}]

ImportSettingsSet ==
    [delimiter : {";"},
     dateFormat : {"YYYY-MM-DD", "DD.MM.YYYY", "MM/DD/YYYY"},
     decimalSeparator : {".", ","}]

\* What the host's Date makes of a string outside the ISO format
HostChoices == { Null, SampleDate }

InitParse ==
    /\ pc = "raw"
    /\ rawData \in {<<r>> : r \in RichRows} \cup SeqsUpTo(BatchRows, MaxRows)
    /\ mapping \in ColumnMappings
    /\ settings \in ImportSettingsSet
    /\ host \in HostChoices
    /\ categories = <<>>
    /\ upload = <<>>
    /\ now = 0
    /\ parsed = None
    /\ transactions = <<>>
    /\ rules = <<>>
    /\ applied = NoOutcome
    /\ reapplied = NoOutcome
    /\ reordered = None
    /\ appliedReordered = NoOutcome
    /\ NoCall
    /\ NoBulk
    /\ NoAi
    /\ NoWizard
    /\ NoMerge
    /\ NoSessions
    /\ NoApp

\* parseMappedData is called on the rows
ParseMappedData ==
    /\ pc = "raw"
    /\ parsed' = parseMappedData(rawData, mapping, settings, now, host)
    /\ pc' = "parsed"
    /\ UNCHANGED <<transactions, rules, applied, reapplied, reordered,
                   appliedReordered, rawData, mapping, settings, now, host,
                   categories, upload,
                   callVars,
                   bulkVars,
                   aiVars,
                   wizardVars,
                   mergeVars,
                   sessionVars,
                   appVars>>

NextParse == ParseMappedData

SpecParse == InitParse /\ [][NextParse]_vars

\* What parseMappedData read and computed for the data row a transaction or
\* a failure record came from
RowOfTx(tx) == rawData[tx.id[3] + 1]
RowOfFailure(f) == rawData[f.row - 1]
AmountOf(row) == parseAmount(Cell(row, mapping.amountIndex), settings.decimalSeparator)
DateOf(row) == parseDate(Cell(row, mapping.dateIndex), settings.dateFormat, host)
TypeCellOf(row) ==
    IF mapping.typeIndex >= 0 THEN Cell(row, mapping.typeIndex) ELSE Undefined

\* C5: every transaction of the success list has a non-negative amount, the
\* absolute value of the amount parsed from its row.
C5_SignErased ==
    pc = "parsed" =>
        \A k \in 1..Len(parsed.success) :
            LET tx == parsed.success[k]
                a == AmountOf(RowOfTx(tx))
            IN  /\ ~tx.amount.nan
                /\ ~tx.amount.neg
                /\ tx.amount.num = a.num /\ tx.amount.den = a.den

C5_Witness ==
    /\ pc = "parsed"
    /\ \E k \in 1..Len(parsed.success) :
          /\ AmountOf(RowOfTx(parsed.success[k])).neg
          /\ parsed.success[k].amount.num = 123456
          /\ parsed.success[k].amount.den = 100
          /\ parsed.success[k].type = "EXPENSE"

\* C6: success and failed together hold every data row exactly once.
C6_RowCountConserved ==
    pc = "parsed" =>
        LET S == {parsed.success[k].id[3] + 1 : k \in 1..Len(parsed.success)}
            F == {parsed.failed[k].row - 1 : k \in 1..Len(parsed.failed)}
        IN  /\ Len(parsed.success) + Len(parsed.failed) = Len(rawData)
            /\ S \cap F = {}
            /\ S \cup F = 1..Len(rawData)

C6_Witness ==
    /\ pc = "parsed"
    /\ Len(rawData) = 2
    /\ Len(parsed.success) = 1
    /\ Len(parsed.failed) = 1
    /\ parsed.failed[1].reason = "Zero amount"

HasIncomeToken(cell) ==
    cell # Undefined /\ \E tok \in IncomeTokens : includes(toLowerCase(cell), tok)

\* C7 as stated: INCOME when the mapped type column holds an income token; in
\* every other case, a mapped type column without a token included, the sign
\* of the parsed amount decides.
C7_TypeFromTokenElseSign ==
    pc = "parsed" =>
        \A k \in 1..Len(parsed.success) :
            LET tx == parsed.success[k]
                row == RowOfTx(tx)
            IN  tx.type = IF HasIncomeToken(TypeCellOf(row)) THEN "INCOME"
                          ELSE IF IsPositive(AmountOf(row)) THEN "INCOME"
                          ELSE "EXPENSE"

\* C7 amended: a non-empty cell of a mapped type column decides alone: INCOME
\* with an income token, EXPENSE without one, whatever the sign; the sign of
\* the parsed amount decides only when the type column is not mapped or the
\* cell is empty or missing.
C7_TypeColumnDecidesWhenFilled ==
    pc = "parsed" =>
        \A k \in 1..Len(parsed.success) :
            LET tx == parsed.success[k]
                row == RowOfTx(tx)
                cell == TypeCellOf(row)
            IN  /\ HasIncomeToken(cell) => tx.type = "INCOME"
                /\ (Truthy(cell) /\ ~HasIncomeToken(cell)) => tx.type = "EXPENSE"
                /\ ~Truthy(cell) =>
                      tx.type = IF IsPositive(AmountOf(row)) THEN "INCOME" ELSE "EXPENSE"

C7_Witness ==
    /\ pc = "parsed"
    /\ \E k \in 1..Len(parsed.success) :
          LET row == RowOfTx(parsed.success[k])
          IN  /\ Truthy(TypeCellOf(row))
              /\ ~HasIncomeToken(TypeCellOf(row))
              /\ IsPositive(AmountOf(row))
              /\ parsed.success[k].type = "EXPENSE"

\* The failure record of data row i (1-based), or a record without reason
FailureOf(i) ==
    IF \E k \in 1..Len(parsed.failed) : parsed.failed[k].row = i + 1
    THEN parsed.failed[CHOOSE k \in 1..Len(parsed.failed) : parsed.failed[k].row = i + 1]
    ELSE [row |-> i + 1, raw |-> rawData[i], reason |-> "none"]

IsCanonicalDate(d) ==
    /\ Len(d) = 10
    /\ \A i \in {1, 2, 3, 4, 6, 7, 9, 10} : IsDigit(d[i])
    /\ d[5] = "-" /\ d[8] = "-"

\* C10: every transaction of the success list has a date of the form
\* YYYY-MM-DD; a date cell that cannot be brought to this form fails the row.
C10_DatesCanonical ==
    pc = "parsed" =>
        \A k \in 1..Len(parsed.success) : IsCanonicalDate(parsed.success[k].date)

----------------------------------------------------------------------------
(* The file import of App.tsx: handleFileUpload reads the file with        *)
(* parseFile and appends its transactions to the active session.           *)

DEFAULT_CATEGORIES ==
    << <<"F","o","o","d"," ","&"," ","D","i","n","i","n","g">>,
       <<"T","r","a","n","s","p","o","r","t","a","t","i","o","n">>,
       <<"U","t","i","l","i","t","i","e","s">>,
       <<"H","o","u","s","i","n","g">>,
       <<"E","n","t","e","r","t","a","i","n","m","e","n","t">>,
       <<"S","h","o","p","p","i","n","g">>,
       <<"H","e","a","l","t","h"," ","&"," ","F","i","t","n","e","s","s">>,
       <<"I","n","c","o","m","e">>,
       <<"B","a","n","k","i","n","g"," ","&"," ","L","o","a","n","s">>,
       <<"U","n","c","a","t","e","g","o","r","i","z","e","d">>,
       <<"O","t","h","e","r">> >>

\* const defaultSettings of the session hook
defaultSettings == [delimiter |-> ";", dateFormat |-> "DD.MM.YYYY", decimalSeparator |-> ","]

\* the callback of findIndex: the lower-cased header includes one of the words
HeaderHas(h, words) == \E w \in words : includes(toLowerCase(h), w)

\* headers.findIndex(h => ...): 0-based index of the first header that has
\* one of the words, -1 when none has
findIndex(headers, words) ==
    IF \E i \in 1..Len(headers) : HeaderHas(headers[i], words)
    THEN (CHOOSE i \in 1..Len(headers) :
              /\ HeaderHas(headers[i], words)
              /\ \A j \in 1..(i - 1) : ~HeaderHas(headers[j], words)) - 1
    ELSE -1

\* Variant: a file without lines is read as a file without data rows
readCsvPreviewEmptyResolves(file) ==
    IF ~file.readable
    THEN [rejected |-> TRUE, headers |-> <<>>, rows |-> <<>>]
    ELSE IF Len(file.grid) = 0
    THEN [rejected |-> FALSE, headers |-> <<>>, rows |-> <<>>]
    ELSE [rejected |-> FALSE, headers |-> file.grid[1], rows |-> Tail(file.grid)]

\* readCsvPreview on a file [readable, grid]: grid holds the cells of the
\* non-empty lines, split at the delimiter; readable is whether XLSX.read
\* accepts the content.  Rejected when XLSX.read throws and when there is
\* no line at all
readCsvPreview(file) ==
    IF ~file.readable \/ Len(file.grid) = 0
    THEN [rejected |-> TRUE, headers |-> <<>>, rows |-> <<>>]
    ELSE [rejected |-> FALSE, headers |-> file.grid[1], rows |-> Tail(file.grid)]

\* The mapping parseFile guesses from the headers
NaiveMapping(headers) ==
    LET dateIdx == findIndex(headers, {<<"d","a","t","e">>, <<"d","a","t","u","m">>})
        descIdx == findIndex(headers, {<<"d","e","s","c">>, <<"t","e","x","t">>,
                      <<"v","e","r","w","e","n","d","u","n","g","s","z","w","e","c","k">>})
        amountIdx == findIndex(headers, {<<"a","m","o","u","n","t">>,
                                         <<"b","e","t","r","a","g">>})
        catIdx == findIndex(headers, {<<"c","a","t","e","g","o","r","y">>,
                                      <<"k","a","t","e","g","o","r","i","e">>})
    IN  [dateIndex |-> IF dateIdx = -1 THEN 0 ELSE dateIdx,
         descriptionIndex |-> IF descIdx = -1 THEN 1 ELSE descIdx,
         amountIndex |-> IF amountIdx = -1 THEN 2 ELSE amountIdx,
         categoryIndex |-> catIdx,
         typeIndex |-> -1]

\* parseFile after the await of readCsvPreview
parseRead(read, st, t, h) ==
    IF read.rejected THEN [rejected |-> TRUE, value |-> <<>>]
    ELSE [rejected |-> FALSE,
          value |-> parseMappedData(read.rows, NaiveMapping(read.headers),
                                    st, t, h).success]

\* parseFile(file, settings): [rejected, value], value the success list
parseFile(file, st, t, h) == parseRead(readCsvPreview(file), st, t, h)

\* Array.from(new Set(xs)): xs without the later copies of its members
Dedup(xs) ==
    Pick(xs, {i \in 1..Len(xs) : \A j \in 1..(i - 1) : xs[j] # xs[i]})

Contains(xs, x) == \E i \in 1..Len(xs) : xs[i] = x

\* The cells of the files that are uploaded
Grids ==
    { << <<<<"D","a","t","u","m">>, <<"T","e","x","t">>, <<"B","e","t","r","a","g">>>>,
         <<<<"2","5",".","1","2",".","2","0","2","3">>, <<"A","b">>, <<"-","1",".","2","3","4",",","5","6">>>>,
         <<<<"2","6",".","1","2",".","2","0","2","3">>, <<"b","(">>, <<"1","2",",","5">>>> >>,
      << <<<<"A">>, <<"B">>, <<"C">>>>,
         <<<<"2","5",".","1","2",".","2","0","2","3">>, <<"A","b">>, <<"-","1",".","2","3","4",",","5","6">>>> >>,
      << <<<<"D","a","t","u","m">>, <<"T","e","x","t">>, <<"B","e","t","r","a","g">>, <<"K","a","t","e","g","o","r","i","e">>>>,
         <<<<"2","7",".","1","2",".","2","0","2","3">>, <<"A","b">>, <<"1","2",",","5">>, <<"F","o","o","d">>>> >>,
      << >> }

\* A workbook XLSX.read cannot read
Garbled == [readable |-> FALSE, grid |-> << <<<<"P">>, <<"K">>>> >>]

Files == {[readable |-> TRUE, grid |-> g] : g \in Grids} \cup {Garbled}

MaxSessionTransactions == 4

\* A session as addSession makes it, with the rules the user has entered
InitImport ==
    /\ pc = "session"
    /\ transactions = <<>>
    /\ categories = DEFAULT_CATEGORIES
    /\ rules \in { <<>>, <<[keyword |-> <<"a">>, category |-> Transport, isRegex |-> FALSE]>> }
    /\ settings = defaultSettings
    /\ now = 0
    /\ host \in HostChoices
    /\ upload = <<>>
    /\ applied = NoOutcome
    /\ reapplied = NoOutcome
    /\ reordered = None
    /\ appliedReordered = NoOutcome
    /\ rawData = <<>>
    /\ mapping = None
    /\ parsed = None
    /\ NoCall
    /\ NoBulk
    /\ NoAi
    /\ NoWizard
    /\ NoMerge
    /\ NoSessions
    /\ NoApp

\* The clock advances by a millisecond
Tick ==
    /\ now < MaxClock
    /\ now' = now + 1
    /\ UNCHANGED <<pc, transactions, rules, applied, reapplied, reordered,
                   appliedReordered, rawData, mapping, settings, parsed, host,
                   categories, upload,
                   callVars,
                   bulkVars,
                   aiVars,
                   wizardVars,
                   mergeVars,
                   sessionVars,
                   appVars>>

\* handleFileUpload up to its await: the file is handed to the FileReader;
\* the handler keeps the activeSession of this render
HandleFileUploadStart ==
    /\ upload = <<>>
    /\ \E f \in Files :
          /\ Len(transactions) + Len(f.grid) - 1 <= MaxSessionTransactions
          /\ upload' = <<[file |-> f, settings |-> settings, rules |-> rules,
                          categories |-> categories]>>
    /\ UNCHANGED <<pc, transactions, rules, applied, reapplied, reordered,
                   appliedReordered, rawData, mapping, settings, parsed, now,
                   host, categories,
                   callVars,
                   bulkVars,
                   aiVars,
                   wizardVars,
                   mergeVars,
                   sessionVars,
                   appVars>>

\* importedCategories: the categories of the imported rows that are not
\* blank, not Uncategorized and not yet among the session's
ImportedCategories(rawTransactions, known) ==
    SelectSeq(Dedup([i \in 1..Len(rawTransactions) |-> rawTransactions[i].category]),
              LAMBDA c : /\ trim(c) # <<>>
                         /\ c # UNCATEGORIZED
                         /\ ~Contains(known, c))

\* updateSessionRaw of handleFileUpload, or its catch block
CommitImport(rejected, processed, importedCategories) ==
    IF rejected \/ processed.threw
    THEN UNCHANGED <<transactions, categories>>
    ELSE /\ categories' = categories \o importedCategories
         /\ transactions' = transactions \o processed.value

\* handleFileUpload from the result of parseFile on
FinishUpload(u, read) ==
    CommitImport(read.rejected,
                 applyRulesToTransactions(read.value, u.rules),
                 ImportedCategories(read.value, u.categories))

\* handleFileUpload after the await: the rows are parsed at the present
\* clock value, the rules applied, and the session updated; a rejected read
\* ends in the catch block
HandleFileUploadDone ==
    /\ upload # <<>>
    /\ FinishUpload(upload[1], parseFile(upload[1].file, upload[1].settings, now, host))
    /\ upload' = <<>>
    /\ UNCHANGED <<pc, rules, applied, reapplied, reordered, appliedReordered,
                   rawData, mapping, settings, parsed, now, host,
                   callVars,
                   bulkVars,
                   aiVars,
                   wizardVars,
                   mergeVars,
                   sessionVars,
                   appVars>>

NextImport == Tick \/ HandleFileUploadStart \/ HandleFileUploadDone

SpecImport == InitImport /\ [][NextImport]_vars

\* C9: no two transactions of the session share an id, whatever the imports
\* made and the clock values they were made at.
C9_TransactionIdsUnique ==
    \A i, j \in 1..Len(transactions) :
        i # j => transactions[i].id # transactions[j].id

\* C20: applyRulesToTransactions returns a list of the length and order of
\* its input; every returned transaction has the id, date, description,
\* amount, type and source of the input one; a transaction no rule matches
\* is returned as it is; with no rule the input is returned as it is; and
\* the call changes neither the list of transactions nor the list of rules.
C20_OnlyCategoryChanges ==
    [][(pc = "input" /\ pc' = "applied") =>
          /\ ~applied'.threw
          /\ Len(applied'.value) = Len(transactions)
          /\ \A i \in 1..Len(transactions) :
                /\ applied'.value[i].id = transactions[i].id
                /\ applied'.value[i].date = transactions[i].date
                /\ applied'.value[i].description = transactions[i].description
                /\ applied'.value[i].amount = transactions[i].amount
                /\ applied'.value[i].type = transactions[i].type
                /\ applied'.value[i].source = transactions[i].source
                /\ DOMAIN applied'.value[i] = DOMAIN transactions[i]
                /\ Matching(rules, transactions[i]) = {}
                      => applied'.value[i] = transactions[i]
          /\ rules = <<>> => applied'.value = transactions
          /\ transactions' = transactions
          /\ rules' = rules]_vars

C20_Witness ==
    /\ pc = "applied"
    /\ Len(transactions) = 2
    /\ Len(rules) = 2
    /\ Len(rules[1].keyword) < Len(rules[2].keyword)
    /\ applied.value[1].category # transactions[1].category
    /\ applied.value[2] = transactions[2]
    /\ Matching(rules, transactions[2]) = {}

----------------------------------------------------------------------------
(* Calls of the locale parsers on single cells.                            *)

\* Date strings: the date cells of the mapper and a few more
DateStrings ==
    DateCells \cup
    { <<" ">>,
      <<"5",".","3",".","2","4">>,
      <<"3","/","7","/","2","0","2","4">>,
      <<" ","7",".","1","1",".","2","0","2","4"," ">>,
      <<"5",".","3">>,
      <<"1",".","2",".","3",".","4">>,
      <<"1","2","/","2","5">>,
      <<"1","e","9">> }

\* Amount strings: the amount cells of the mapper and a few more
AmountStrings ==
    AmountCells \cup
    { <<"1",".","2","3","4",",","5","6">>,
      <<"E","U","R"," ","1",".","2","3","4",",","5","6">>,
      <<"1",",","2",",","3">>,
      <<"1",".","0","0","0",".","0","0","0">>,
      <<"1","2",".","5">>,
      <<"-","5",",","5","0">>,
      <<" ","7"," ","5","0","0",",","2","5"," ">> }

ParserCalls ==
    [dateStr : DateStrings, format : {"YYYY-MM-DD", "DD.MM.YYYY", "MM/DD/YYYY"},
     amountStr : AmountStrings, decimalSeparator : {".", ","}]

InitLocale ==
    /\ pc = "call"
    /\ args \in ParserCalls
    /\ host \in HostChoices
    /\ ret = <<>>
    /\ transactions = <<>>
    /\ rules = <<>>
    /\ applied = NoOutcome
    /\ reapplied = NoOutcome
    /\ reordered = None
    /\ appliedReordered = NoOutcome
    /\ rawData = <<>>
    /\ mapping = None
    /\ settings = None
    /\ parsed = None
    /\ now = 0
    /\ categories = <<>>
    /\ upload = <<>>
    /\ NoBulk
    /\ NoAi
    /\ NoWizard
    /\ NoMerge
    /\ NoSessions
    /\ NoApp

\* parseDate(dateStr, format) is called
CallParseDate ==
    /\ pc = "call"
    /\ ret' = [of |-> "parseDate",
               value |-> parseDate(args.dateStr, args.format, host)]
    /\ pc' = "returned"
    /\ UNCHANGED <<transactions, rules, settings, now, host, categories, upload,
                   args, engineVars, mapperVars,
                   bulkVars,
                   aiVars,
                   wizardVars,
                   mergeVars,
                   sessionVars,
                   appVars>>

\* parseAmount(amountStr, decimalSeparator) is called
CallParseAmount ==
    /\ pc = "call"
    /\ ret' = [of |-> "parseAmount",
               value |-> parseAmount(args.amountStr, args.decimalSeparator)]
    /\ pc' = "returned"
    /\ UNCHANGED <<transactions, rules, settings, now, host, categories, upload,
                   args, engineVars, mapperVars,
                   bulkVars,
                   aiVars,
                   wizardVars,
                   mergeVars,
                   sessionVars,
                   appVars>>

NextLocale == CallParseDate \/ CallParseAmount

SpecLocale == InitLocale /\ [][NextLocale]_vars

\* C11: with the formats DD.MM.YYYY and MM/DD/YYYY parseDate never throws;
\* an input of three parts d.m.y (m/d/y) gives y-m-d with month and day
\* padded to two digits and a two-digit year prefixed with 20; an input that
\* does not split into three parts, and is not a serial number (digits
\* only), gives null.
C11_ParseDateReassembles ==
    (pc = "returned" /\ ret.of = "parseDate" /\ args.format # "YYYY-MM-DD") =>
        LET s == trim(args.dateStr)
            dayFirst == args.format = "DD.MM.YYYY"
            parts == split(s, IF dayFirst THEN "." ELSE "/")
            pad2(x) == IF Len(x) >= 2 THEN x
                       ELSE IF Len(x) = 1 THEN <<"0">> \o x ELSE <<"0", "0">>
            year == IF Len(parts[3]) = 2 THEN <<"2", "0">> \o parts[3] ELSE parts[3]
            day == IF dayFirst THEN parts[1] ELSE parts[2]
            month == IF dayFirst THEN parts[2] ELSE parts[1]
            serial == s # <<>> /\ \A i \in 1..Len(s) : IsDigit(s[i])
        IN  /\ ret.value # RangeError
            /\ Len(parts) = 3 =>
                  ret.value = year \o <<"-">> \o pad2(month) \o <<"-">> \o pad2(day)
            /\ (Len(parts) # 3 /\ ~serial) => ret.value = Null

\* C12: parseAmount on a non-empty string strips every character that is
\* not a digit, ".", "," or "-"; with the separator "," it then drops every
\* "." and reads "," as the decimal point, with the separator "." it drops
\* every ","; "1.234,56" with "," and "1,234.56" with "." both give 1234.56.
C12_DecimalSeparator ==
    (pc = "returned" /\ ret.of = "parseAmount" /\ args.amountStr # <<>>) =>
        LET kept == SelectSeq(args.amountStr, LAMBDA c : IsDigit(c) \/ c \in {".", ",", "-"})
            noDots == SelectSeq(kept, LAMBDA c : c # ".")
            noCommas == SelectSeq(kept, LAMBDA c : c # ",")
            commaAsPoint == [i \in 1..Len(noDots) |->
                                IF noDots[i] = "," THEN "." ELSE noDots[i]]
            example == [nan |-> FALSE, neg |-> FALSE, num |-> 123456, den |-> 100]
        IN  /\ args.decimalSeparator = "," => ret.value = parseFloat(commaAsPoint)
            /\ args.decimalSeparator = "." => ret.value = parseFloat(noCommas)
            /\ ( \/ /\ args.amountStr = <<"1",".","2","3","4",",","5","6">>
                    /\ args.decimalSeparator = ","
                 \/ /\ args.amountStr = <<"1",",","2","3","4",".","5","6">>
                    /\ args.decimalSeparator = "." )
                  => ret.value = example

C12_Witness ==
    /\ pc = "returned"
    /\ ret.of = "parseAmount"
    /\ args.amountStr = <<"E","U","R"," ","1",".","2","3","4",",","5","6">>
    /\ args.decimalSeparator = ","
    /\ ret.value = [nan |-> FALSE, neg |-> FALSE, num |-> 123456, den |-> 100]

----------------------------------------------------------------------------
(* Bulk re-application of the rules: handleApplyRulesToExisting of App.tsx, *)
(* run in chunks with a timeout between them, next to a file upload that   *)
(* may be waiting for its FileReader.                                      *)

\* const BATCH_SIZE, 500 in the source, scaled down with the lists
BATCH_SIZE == 2
\* longest transaction list a run starts from
MaxBulkTransactions == 3

Min(a, b) == IF a < b THEN a ELSE b

\* Variant: the rules are used in the order the session holds them
BulkRulesAsEntered(rs) == rs

\* rules.sort((a, b) => b.keyword.length - a.keyword.length) on the copy
BulkSortedRules(rs) ==
    [p \in 1..Len(rs) |-> rs[CHOOSE i \in 1..Len(rs) : SortRank(rs, i) = p]]

\* The callback of sortedRules.find in the chunk loop
BulkRuleMatches(r, t) ==
    IF r.isRegex
    THEN IF RegExpCompiles(r.keyword) THEN RegExpTest(r.keyword, t.description)
         ELSE FALSE
    ELSE includes(toLowerCase(t.description), toLowerCase(r.keyword))

\* sortedRules.find in the chunk loop: index of the first matching rule, or 0
BulkFind(sorted, t) ==
    IF \E i \in 1..Len(sorted) : BulkRuleMatches(sorted[i], t)
    THEN CHOOSE i \in 1..Len(sorted) :
             /\ BulkRuleMatches(sorted[i], t)
             /\ \A j \in 1..(i - 1) : ~BulkRuleMatches(sorted[j], t)
    ELSE 0

\* What the loop body pushes for t
BulkPushed(t, sorted) ==
    IF BulkFind(sorted, t) > 0
    THEN [t EXCEPT !.category = sorted[BulkFind(sorted, t)].category]
    ELSE t

\* Whether the loop body counts t as updated
BulkCounted(t, sorted) ==
    /\ BulkFind(sorted, t) > 0
    /\ t.category # sorted[BulkFind(sorted, t)].category

\* Variant: the end of the chunk is not limited by the total
ChunkEndUnclamped(i, total) == i + BATCH_SIZE

\* const end = Math.min(i + BATCH_SIZE, total)
ChunkEnd(i, total) == Min(i + BATCH_SIZE, total)

\* xs.slice(i, end), with 0-based i and an end that may lie behind the list
slice(xs, i, end) == SubSeq(xs, i + 1, Min(end, Len(xs)))

\* chunk.forEach: the locals after the chunk was pushed and counted
AfterChunk(b, chunk, end) ==
    [b EXCEPT !.newTransactions =
                  @ \o [k \in 1..Len(chunk) |-> BulkPushed(chunk[k], b.sortedRules)],
              !.updatedCount =
                  @ + Cardinality({k \in 1..Len(chunk) :
                                      BulkCounted(chunk[k], b.sortedRules)}),
              !.i = b.i + BATCH_SIZE,
              !.end = end]

\* setRuleApplicationStatus after a chunk
ProgressStatus(b, finished) ==
    [active |-> TRUE, progress |-> IF finished THEN b.total ELSE b.end,
     total |-> b.total, updated |-> b.updatedCount, finished |-> finished]

\* The rest of the handler once the locals are b: either the next timeout is
\* awaited, or the loop is left, the new list is written over the session's
\* transactions and the run is reported as finished
BulkContinue(b) ==
    /\ bulk' = <<b>>
    /\ IF b.i < b.total
       THEN /\ pc' = "loop"
            /\ ruleApplicationStatus' = <<ProgressStatus(b, FALSE)>>
            /\ UNCHANGED transactions
       ELSE /\ pc' = "done"
            /\ ruleApplicationStatus' = <<ProgressStatus(b, TRUE)>>
            /\ transactions' = b.newTransactions

BulkRuleLists ==
    { <<>>,
      <<[keyword |-> <<"a">>, category |-> Transport, isRegex |-> FALSE]>>,
      <<[keyword |-> <<"B">>, category |-> Food, isRegex |-> FALSE]>>,
      <<[keyword |-> <<"a">>, category |-> Food, isRegex |-> FALSE],
        [keyword |-> <<"a", ".">>, category |-> Transport, isRegex |-> TRUE]>>,
      <<[keyword |-> <<"(">>, category |-> Food, isRegex |-> TRUE],
        [keyword |-> <<"B">>, category |-> Transport, isRegex |-> FALSE]>> }

BulkTransactionLists ==
    UNION {{[i \in 1..n |-> ManualTransaction(i, f[i][1], f[i][2])] :
               f \in [1..n -> Described]} :
           n \in 0..MaxBulkTransactions}

InitBulk ==
    /\ pc = "session"
    /\ transactions \in BulkTransactionLists
    /\ rules \in BulkRuleLists
    /\ categories = DEFAULT_CATEGORIES
    /\ settings = defaultSettings
    /\ now = 0
    /\ host \in HostChoices
    /\ upload = <<>>
    /\ applied = NoOutcome
    /\ reapplied = NoOutcome
    /\ reordered = None
    /\ appliedReordered = NoOutcome
    /\ rawData = <<>>
    /\ mapping = None
    /\ parsed = None
    /\ NoCall
    /\ NoBulk
    /\ NoAi
    /\ NoWizard
    /\ NoMerge
    /\ NoSessions
    /\ NoApp

\* handleApplyRulesToExisting up to its first await: the lists of the
\* session are copied, the rules sorted, and the progress set to 0; with no
\* transaction the loop is not entered and the handler runs to its end
BulkStart ==
    /\ pc = "session"
    /\ ruleApplicationStatus = <<>>
    /\ Len(rules) # 0
    /\ BulkContinue([session |-> [transactions |-> transactions, rules |-> rules],
                     sortedRules |-> BulkSortedRules(rules),
                     total |-> Len(transactions),
                     newTransactions |-> <<>>,
                     updatedCount |-> 0,
                     i |-> 0,
                     end |-> 0])
    /\ UNCHANGED <<rules, settings, now, host, categories, upload,
                   engineVars, mapperVars, callVars,
                   aiVars,
                   wizardVars,
                   mergeVars,
                   sessionVars,
                   appVars>>

\* The timeout of the loop fires: one chunk is processed, then the handler
\* goes on to the next await or to its end
BulkChunk ==
    /\ pc = "loop"
    /\ BulkContinue(AfterChunk(bulk[1],
                               slice(bulk[1].session.transactions, bulk[1].i,
                                     ChunkEnd(bulk[1].i, bulk[1].total)),
                               ChunkEnd(bulk[1].i, bulk[1].total)))
    /\ UNCHANGED <<rules, settings, now, host, categories, upload,
                   engineVars, mapperVars, callVars,
                   aiVars,
                   wizardVars,
                   mergeVars,
                   sessionVars,
                   appVars>>

\* onClose of the progress modal, which shows its button when finished
BulkClose ==
    /\ pc = "done"
    /\ ruleApplicationStatus' = <<>>
    /\ bulk' = <<>>
    /\ pc' = "session"
    /\ UNCHANGED <<transactions, rules, settings, now, host, categories, upload,
                   engineVars, mapperVars, callVars,
                   aiVars,
                   wizardVars,
                   mergeVars,
                   sessionVars,
                   appVars>>

NextBulk ==
    BulkStart \/ BulkChunk \/ BulkClose \/ HandleFileUploadStart \/ HandleFileUploadDone

SpecBulk == InitBulk /\ [][NextBulk]_vars

\* A run on its own, no upload next to it; the timeout of every chunk fires
NextBulkRun == BulkStart \/ BulkChunk \/ BulkClose

SpecBulkLive == InitBulk /\ [][NextBulkRun]_vars /\ WF_vars(BulkChunk)

\* C13: the list the chunked run writes at its end is
\* applyRulesToTransactions(T, R) for the transactions T and the rules R the
\* session had when the run started, whether T is shorter than, as long as
\* or longer than a batch.
C13_ChunkedEqualsSynchronous ==
    pc = "done" =>
        /\ ~applyRulesToTransactions(bulk[1].session.transactions,
                                     bulk[1].session.rules).threw
        /\ bulk[1].newTransactions =
               applyRulesToTransactions(bulk[1].session.transactions,
                                        bulk[1].session.rules).value

C13_Witness ==
    /\ pc = "done"
    /\ Len(bulk[1].session.transactions) > BATCH_SIZE
    /\ Len(bulk[1].session.rules) = 2
    /\ transactions = bulk[1].newTransactions
    /\ transactions # bulk[1].session.transactions
    /\ transactions[1].category = Transport

\* The run is under way or its result is shown
BulkShown == pc \in {"loop", "done"}

\* Number of transactions the run gave another category
BulkChanged(b) ==
    Cardinality({k \in 1..Len(b.newTransactions) :
                    b.newTransactions[k].category # b.session.transactions[k].category})

\* C14: the processed count the run reports, the one handed over after the
\* last chunk included, never decreases, grows by at most one batch per
\* chunk and never exceeds total; a finished run reports
\* processed = total and updated = the number of transactions whose category
\* the run changed; and every run that was started is eventually reported
\* finished.
C14_ProgressAndTermination ==
    /\ [](BulkShown =>
            /\ ruleApplicationStatus[1].progress <= ruleApplicationStatus[1].total
            /\ bulk[1].end <= ruleApplicationStatus[1].total
            /\ ruleApplicationStatus[1].total = Len(bulk[1].session.transactions)
            /\ ruleApplicationStatus[1].finished =>
                  /\ ruleApplicationStatus[1].progress = ruleApplicationStatus[1].total
                  /\ Len(bulk[1].newTransactions) = ruleApplicationStatus[1].total
                  /\ ruleApplicationStatus[1].updated = BulkChanged(bulk[1]))
    /\ [][(BulkShown /\ BulkShown') =>
            /\ ruleApplicationStatus'[1].progress >= ruleApplicationStatus[1].progress
            /\ ruleApplicationStatus'[1].progress - ruleApplicationStatus[1].progress
                  <= BATCH_SIZE
            /\ bulk'[1].end >= bulk[1].end]_vars
    /\ (BulkShown ~> (BulkShown /\ ruleApplicationStatus[1].finished))

C14_Witness ==
    /\ pc = "done"
    /\ ruleApplicationStatus[1].finished
    /\ ruleApplicationStatus[1].total > BATCH_SIZE
    /\ ruleApplicationStatus[1].progress = ruleApplicationStatus[1].total
    /\ ruleApplicationStatus[1].updated > 0
    /\ ruleApplicationStatus[1].updated < ruleApplicationStatus[1].total

----------------------------------------------------------------------------
(* AI categorization: handleAutoCategorize of App.tsx and                  *)
(* categorizeTransactionsAI of services/gemini.ts.                         *)

General == <<"G","e","n","e","r","a","l">>

\* The filter of handleAutoCategorize
NeedsCategory(t) == t.category = UNCATEGORIZED \/ t.category = General

\* uncategorized.map(t => ({ id, description, amount }))
AiRequest(txs) ==
    [k \in 1..Len(SelectSeq(txs, NeedsCategory)) |->
        [id |-> SelectSeq(txs, NeedsCategory)[k].id,
         description |-> SelectSeq(txs, NeedsCategory)[k].description,
         amount |-> SelectSeq(txs, NeedsCategory)[k].amount]]

\* What generateContent can come back with: a rejection, no text, a text
\* that is not JSON, or the JSON of a list of {id, category}
AiResponses(sent) ==
    {[kind |-> k, results |-> <<>>] : k \in {"rejected", "no text", "not JSON"}}
    \cup {[kind |-> "JSON",
           results |-> [k \in 1..n |-> [id |-> sent[k].id, category |-> c]]] :
              n \in 0..Len(sent), c \in RuleCategories}

\* Variant: a failed call answers with a guess for every transaction
categorizeTransactionsAIGuessing(sent, response) ==
    IF Len(sent) = 0 THEN <<>>
    ELSE IF response.kind = "JSON" THEN response.results
    ELSE [k \in 1..Len(sent) |-> [id |-> sent[k].id, category |-> Food]]

\* categorizeTransactionsAI once generateContent has come back
categorizeTransactionsAI(sent, response) ==
    IF Len(sent) = 0 THEN <<>>
    ELSE IF response.kind = "rejected" THEN <<>>
    ELSE IF response.kind = "no text" THEN <<>>
    ELSE IF response.kind = "not JSON" THEN <<>>
    ELSE response.results

\* results.find(r => r.id === t.id): index of the first result for t, or 0
AiMatch(results, t) ==
    IF \E k \in 1..Len(results) : results[k].id = t.id
    THEN CHOOSE k \in 1..Len(results) :
             /\ results[k].id = t.id
             /\ \A j \in 1..(k - 1) : results[j].id # t.id
    ELSE 0

\* The updater handleAutoCategorize hands to updateTransactions
AiUpdater(prev, results) ==
    [k \in 1..Len(prev) |->
        IF AiMatch(results, prev[k]) > 0
        THEN [prev[k] EXCEPT !.category = results[AiMatch(results, prev[k])].category]
        ELSE prev[k]]

AiDescribed ==
    { << <<"A", "b">>, UNCATEGORIZED >>, << <<"b", "(">>, Food >>,
      << <<"A", "b">>, General >> }

AiTransactionLists ==
    UNION {{[i \in 1..n |-> ManualTransaction(i, f[i][1], f[i][2])] :
               f \in [1..n -> AiDescribed]} :
           n \in 0..MaxTransactions}

InitAI ==
    /\ pc = "session"
    /\ transactions \in AiTransactionLists
    /\ inactive \in {<<>>, <<ManualTransaction(1, <<"A", "b">>, UNCATEGORIZED)>>}
    /\ isCategorizing = FALSE
    /\ aiCall = <<>>
    /\ rules = <<>>
    /\ categories = DEFAULT_CATEGORIES
    /\ settings = defaultSettings
    /\ now = 0
    /\ host = None
    /\ upload = <<>>
    /\ applied = NoOutcome
    /\ reapplied = NoOutcome
    /\ reordered = None
    /\ appliedReordered = NoOutcome
    /\ rawData = <<>>
    /\ mapping = None
    /\ parsed = None
    /\ NoCall
    /\ NoBulk
    /\ NoWizard
    /\ NoMerge
    /\ NoSessions
    /\ NoApp

\* handleAutoCategorize up to its await; with nothing to categorize it
\* alerts and returns.  Its button is covered while a modal is open.
AutoCategorizeStart ==
    /\ pc = "session"
    /\ ~isCategorizing
    /\ NoModal
    /\ AiRequest(transactions) # <<>>
    /\ isCategorizing' = TRUE
    /\ aiCall' = <<[sent |-> AiRequest(transactions),
                    response |-> [kind |-> "pending", results |-> <<>>]]>>
    /\ pc' = "awaiting"
    /\ UNCHANGED <<transactions, rules, settings, now, host, categories, upload,
                   inactive, engineVars, mapperVars, callVars, bulkVars,
                   wizardVars,
                   mergeVars,
                   sessionVars,
                   appVars>>

\* generateContent comes back
AiRespond ==
    /\ pc = "awaiting"
    /\ \E r \in AiResponses(aiCall[1].sent) :
          aiCall' = <<[aiCall[1] EXCEPT !.response = r]>>
    /\ pc' = "responded"
    /\ UNCHANGED <<transactions, rules, settings, now, host, categories, upload,
                   isCategorizing, inactive, engineVars, mapperVars, callVars,
                   bulkVars,
                   wizardVars,
                   mergeVars,
                   sessionVars,
                   appVars>>

\* handleAutoCategorize after its await: the results are merged into the
\* active session, and the finally block resets isCategorizing
AutoCategorizeDone ==
    /\ pc = "responded"
    /\ transactions' =
           AiUpdater(transactions,
                     categorizeTransactionsAI(aiCall[1].sent, aiCall[1].response))
    /\ isCategorizing' = FALSE
    /\ pc' = "session"
    /\ UNCHANGED <<rules, settings, now, host, categories, upload,
                   aiCall, inactive, engineVars, mapperVars, callVars, bulkVars,
                   wizardVars,
                   mergeVars,
                   sessionVars,
                   appVars>>

NextAI == AutoCategorizeStart \/ AiRespond \/ AutoCategorizeDone

SpecAI == InitAI /\ [][NextAI]_vars

\* C16: when the call of the categorizer was rejected, came back without
\* text or with a text that is not JSON, the step of handleAutoCategorize
\* that follows leaves every transaction of the active and of the other
\* session as it was, and isCategorizing is false after it.
C16_FailureChangesNothing ==
    [][(pc = "responded" /\ aiCall[1].response.kind # "JSON") =>
          /\ transactions' = transactions
          /\ inactive' = inactive
          /\ isCategorizing' = FALSE]_vars

C16_Witness ==
    /\ pc = "session"
    /\ aiCall # <<>>
    /\ aiCall[1].response.kind = "not JSON"
    /\ Len(aiCall[1].sent) = 2
    /\ inactive # <<>>
    /\ ~isCategorizing
    /\ transactions[1].category = UNCATEGORIZED

----------------------------------------------------------------------------
(* The import wizard of components/SettingsView.tsx: handleStartProcessing, *)
(* next to the file upload of App.tsx.                                     *)

\* const chunkSize of the AI calls, 50 in the source, scaled down with the files
chunkSize == 1

\* The mappings the user confirms in the mapping step
WizardMappings ==
    [dateIndex : {0}, descriptionIndex : {1}, amountIndex : {2},
     categoryIndex : {-1, 3}, typeIndex : {-1}]

\* The mapping of a wizard that was just opened
NoMapping ==
    [dateIndex |-> -1, descriptionIndex |-> -1, amountIndex |-> -1,
     categoryIndex |-> -1, typeIndex |-> -1]

\* Variant: every transaction is handed to the categorizer
WizardNeedsAiAll(txs) == txs

\* needsAi: the transactions that are Uncategorized after the rules
WizardNeedsAi(txs) == SelectSeq(txs, LAMBDA t : t.category = UNCATEGORIZED)

\* chunk.map(t => ({ id, description, amount })) of needsAi.slice(i, i + chunkSize)
WizardChunk(needsAi, i) ==
    [k \in 1..Len(slice(needsAi, i, i + chunkSize)) |->
        [id |-> slice(needsAi, i, i + chunkSize)[k].id,
         description |-> slice(needsAi, i, i + chunkSize)[k].description,
         amount |-> slice(needsAi, i, i + chunkSize)[k].amount]]

\* aiMap.get(t.id): index of the last result for t, or 0
AiMapGet(aiResults, t) ==
    IF \E k \in 1..Len(aiResults) : aiResults[k].id = t.id
    THEN CHOOSE k \in 1..Len(aiResults) :
             /\ aiResults[k].id = t.id
             /\ \A j \in (k + 1)..Len(aiResults) : aiResults[j].id # t.id
    ELSE 0

\* transactions.map over aiMap
WizardMerge(txs, aiResults) ==
    [k \in 1..Len(txs) |->
        IF AiMapGet(aiResults, txs[k]) > 0
        THEN [txs[k] EXCEPT !.category = aiResults[AiMapGet(aiResults, txs[k])].category]
        ELSE txs[k]]

Called(name, sent) == [call |-> name, sent |-> sent]

\* The locals of handleStartProcessing when readCsvPreview has settled
WizardLocals(read) ==
    [phase |-> "read", read |-> read, parsed |-> [success |-> <<>>, failed |-> <<>>],
     transactions |-> <<>>, needsAi |-> <<>>, i |-> 0, aiResults |-> <<>>]

\* The rest of handleStartProcessing once the rules were applied and needsAi
\* is known, or once a chunk has come back: the next chunk is sent, or the
\* AI results are merged and the result is set
WizardContinue(w, calls) ==
    IF w.i < Len(w.needsAi)
    THEN /\ wiz' = <<[w EXCEPT !.phase = "ai"]>>
         /\ log' = calls \o <<Called("categorizeTransactionsAI",
                                     WizardChunk(w.needsAi, w.i))>>
         /\ UNCHANGED <<step, result>>
    ELSE /\ wiz' = <<[w EXCEPT !.phase = "finished"]>>
         /\ log' = calls
         /\ result' = [success |-> WizardMerge(w.transactions, w.aiResults),
                       failed |-> w.parsed.failed]
         /\ step' = "results"

\* Lines 1055 to 1064 of handleStartProcessing on the rows that were read
WizardParsed(w, p) ==
    WizardContinue(
        [w EXCEPT !.parsed = p,
                  !.transactions = applyRulesToTransactions(p.success, rules).value,
                  !.needsAi = WizardNeedsAi(
                                  applyRulesToTransactions(p.success, rules).value)],
        log \o <<Called("parseMappedData", <<>>),
                 Called("applyRulesToTransactions", <<>>)>>)

\* A session that holds transactions already, next to a second session
InitWizard ==
    /\ pc = "session"
    /\ transactions = [i \in 1..(MaxSessionTransactions - 1) |->
                           ManualTransaction(i, <<"A", "b">>, UNCATEGORIZED)]
    /\ inactive = <<ManualTransaction(1, <<"A", "b">>, UNCATEGORIZED)>>
    /\ categories = DEFAULT_CATEGORIES
    /\ rules \in { <<>>, <<[keyword |-> <<"a">>, category |-> Transport, isRegex |-> FALSE]>> }
    /\ settings = defaultSettings
    /\ mapping = NoMapping
    /\ now = 0
    /\ host = Null
    /\ upload = <<>>
    /\ isCategorizing = FALSE
    /\ aiCall = <<>>
    /\ applied = NoOutcome
    /\ reapplied = NoOutcome
    /\ reordered = None
    /\ appliedReordered = NoOutcome
    /\ rawData = <<>>
    /\ parsed = None
    /\ NoCall
    /\ NoBulk
    /\ NoWizard
    /\ NoMerge
    /\ NoSessions
    /\ NoApp

\* Variant: the catch block also empties the result list
WizardCatchClearsResult(w) ==
    /\ step' = "mapping"
    /\ wiz' = <<[w EXCEPT !.phase = "failed"]>>
    /\ result' = [success |-> <<>>, failed |-> <<>>]
    /\ UNCHANGED log

\* The catch block of handleStartProcessing
WizardCatch(w) ==
    /\ step' = "mapping"
    /\ wiz' = <<[w EXCEPT !.phase = "failed"]>>
    /\ UNCHANGED <<result, log>>

\* handleFileSelect with a file whose preview can be read, and the mapping
\* the user leaves the mapping step with
WizardFileSelect ==
    /\ step = "upload"
    /\ mapping' \in WizardMappings
    /\ step' = "mapping"
    /\ UNCHANGED <<pc, transactions, rules, settings, now, host, categories, upload,
                   rawData, parsed, result, wiz, log, engineVars, callVars,
                   bulkVars, aiVars,
                   mergeVars,
                   sessionVars,
                   appVars>>

\* handleStartProcessing up to its await of readCsvPreview
WizardStartProcessing ==
    /\ step = "mapping"
    /\ step' = "processing"
    /\ wiz' = <<>>
    /\ log' = <<>>
    /\ UNCHANGED <<pc, transactions, rules, settings, now, host, categories, upload,
                   result, engineVars, mapperVars, callVars, bulkVars, aiVars,
                   mergeVars,
                   sessionVars,
                   appVars>>

\* onload of the FileReader: the promise of readCsvPreview is settled with
\* what the file holds at this time
WizardRead ==
    /\ step = "processing"
    /\ wiz = <<>>
    /\ \E f \in Files : wiz' = <<WizardLocals(readCsvPreview(f))>>
    /\ UNCHANGED <<pc, transactions, rules, settings, now, host, categories, upload,
                   step, result, log, engineVars, mapperVars, callVars,
                   bulkVars, aiVars,
                   mergeVars,
                   sessionVars,
                   appVars>>

\* handleStartProcessing after the await of readCsvPreview: the catch block
\* when the read was rejected, else parse, rules and the first AI chunk
WizardAfterRead ==
    /\ step = "processing"
    /\ wiz # <<>>
    /\ wiz[1].phase = "read"
    /\ IF wiz[1].read.rejected
       THEN WizardCatch(wiz[1])
       ELSE WizardParsed(wiz[1],
                         parseMappedData(wiz[1].read.rows, mapping, settings, now, host))
    /\ UNCHANGED <<pc, transactions, rules, settings, now, host, categories, upload,
                   engineVars, mapperVars, callVars, bulkVars, aiVars,
                   mergeVars,
                   sessionVars,
                   appVars>>

\* A call of categorizeTransactionsAI comes back and the loop goes on
WizardAiChunk ==
    /\ step = "processing"
    /\ wiz # <<>>
    /\ wiz[1].phase = "ai"
    /\ \E r \in AiResponses(WizardChunk(wiz[1].needsAi, wiz[1].i)) :
          WizardContinue(
              [wiz[1] EXCEPT
                  !.aiResults = @ \o categorizeTransactionsAI(
                                         WizardChunk(wiz[1].needsAi, wiz[1].i), r),
                  !.i = @ + chunkSize],
              log)
    /\ UNCHANGED <<pc, transactions, rules, settings, now, host, categories, upload,
                   engineVars, mapperVars, callVars, bulkVars, aiVars,
                   mergeVars,
                   sessionVars,
                   appVars>>

\* Cancel on the results step
WizardCancel ==
    /\ step = "results"
    /\ step' = "upload"
    /\ UNCHANGED <<pc, transactions, rules, settings, now, host, categories, upload,
                   result, wiz, log, engineVars, mapperVars, callVars,
                   bulkVars, aiVars,
                   mergeVars,
                   sessionVars,
                   appVars>>

NextWizard ==
    \/ WizardFileSelect \/ WizardStartProcessing \/ WizardRead
    \/ WizardAfterRead \/ WizardAiChunk \/ WizardCancel
    \/ HandleFileUploadStart \/ HandleFileUploadDone

SpecWizard == InitWizard /\ [][NextWizard]_vars

\* The places of the log where the categorizer was called
AiCalls == {k \in 1..Len(log) : log[k].call = "categorizeTransactionsAI"}

\* The transactions that are Uncategorized once the rules were applied to
\* what was parsed
LeftUncategorized ==
    {k \in 1..Len(wiz[1].parsed.success) :
        applyRulesToTransactions(wiz[1].parsed.success, rules).value[k].category
            = UNCATEGORIZED}

\* C17: handleStartProcessing calls parseMappedData first and
\* applyRulesToTransactions second; every call of the categorizer comes
\* after them and is handed only transactions that are Uncategorized after
\* the rules ran, and at least one; when no transaction is Uncategorized
\* after the rules, the categorizer is not called.
C17_ParseRulesThenAi ==
    log # <<>> =>
        /\ Len(log) >= 2
        /\ log[1].call = "parseMappedData"
        /\ log[2].call = "applyRulesToTransactions"
        /\ \A k \in 3..Len(log) : k \in AiCalls
        /\ \A k \in AiCalls :
              /\ log[k].sent # <<>>
              /\ \A j \in 1..Len(log[k].sent) :
                    \E u \in LeftUncategorized :
                        wiz[1].parsed.success[u].id = log[k].sent[j].id
        /\ LeftUncategorized = {} => AiCalls = {}

C17_Witness ==
    /\ step = "results"
    /\ rules # <<>>
    /\ Len(wiz[1].parsed.success) = 2
    /\ Cardinality(AiCalls) = 1
    /\ log[3].sent[1].description = <<"b", "(">>
    /\ result.success[1].category = Transport

\* C18: when the read of the file is rejected (a file without lines, a
\* workbook that cannot be read), the step of handleFileUpload that follows
\* leaves the transactions and categories of the active session and the
\* other session as they were, and the step of handleStartProcessing that
\* follows goes back to the mapping step and leaves the result list as it was.
C18_FileFailureCommitsNothing ==
    [][/\ (/\ upload # <<>>
           /\ upload' = <<>>
           /\ ~upload[1].file.readable \/ upload[1].file.grid = <<>>)
          => /\ transactions' = transactions
             /\ categories' = categories
             /\ inactive' = inactive
       /\ (/\ step = "processing"
           /\ wiz # <<>>
           /\ wiz[1].phase = "read"
           /\ wiz[1].read.rejected
           /\ wiz' # wiz)
          => /\ step' = "mapping"
             /\ result' = result
             /\ transactions' = transactions
             /\ categories' = categories
             /\ inactive' = inactive]_vars

C18_Witness ==
    /\ step = "mapping"
    /\ wiz # <<>>
    /\ wiz[1].phase = "failed"
    /\ result.success # <<>>
    /\ upload = <<>>
    /\ Len(transactions) = MaxSessionTransactions - 1

----------------------------------------------------------------------------
(* Merging an exported session into the active one: mergeSession of        *)
(* hooks/useSessionData.ts.                                                *)

\* Array.from(new Set([...xs, ...ys]))
Union(xs, ys) == Dedup(xs \o ys)

\* rulesToAdd: the incoming rules whose keyword, case ignored, is new
RulesToAdd(currentRules, incomingRules) ==
    SelectSeq(incomingRules,
              LAMBDA r : \A k \in 1..Len(currentRules) :
                            toLowerCase(currentRules[k].keyword) # toLowerCase(r.keyword))

\* txToAdd: the incoming transactions whose id no current transaction has
TxToAdd(currentTx, incomingTx) ==
    SelectSeq(incomingTx,
              LAMBDA t : \A k \in 1..Len(currentTx) : currentTx[k].id # t.id)

\* `imported-<kind>-${Date.now()}-${Math.random()}`; Math.random is taken to
\* hand out a number it has not handed out before
ImportedId(kind, t, r) == <<"imported", kind, t, r>>

\* incoming.map(x => ({ ...x, id: ... })) with the random numbers after r
Reidentified(incoming, kind, t, r) ==
    [k \in 1..Len(incoming) |->
        [incoming[k] EXCEPT !.id = ImportedId(kind, t, r + k)]]

standardTypes == {"net-worth", "assets", "cash-flow", "spending", "sankey"}

\* incomingWidgets.find(iw => iw.type === w.type): its index, or 0
WidgetMatch(incomingWidgets, w) ==
    IF \E k \in 1..Len(incomingWidgets) : incomingWidgets[k].type = w.type
    THEN CHOOSE k \in 1..Len(incomingWidgets) :
             /\ incomingWidgets[k].type = w.type
             /\ \A j \in 1..(k - 1) : incomingWidgets[j].type # w.type
    ELSE 0

\* updatedWidgets
UpdatedWidgets(existingWidgets, incomingWidgets) ==
    [k \in 1..Len(existingWidgets) |->
        IF /\ WidgetMatch(incomingWidgets, existingWidgets[k]) > 0
           /\ existingWidgets[k].type \in standardTypes
        THEN [existingWidgets[k] EXCEPT
                 !.visible = incomingWidgets[WidgetMatch(incomingWidgets, existingWidgets[k])].visible,
                 !.width = incomingWidgets[WidgetMatch(incomingWidgets, existingWidgets[k])].width]
        ELSE existingWidgets[k]]

\* the incoming widgets of type custom
CustomWidgets(ws) == SelectSeq(ws, LAMBDA w : w.type = "custom")

Asset(i, n) == [id |-> <<"asset", i>>, name |-> n]
Goal(i, n) == [id |-> <<"goal", i>>, name |-> n]
Widget(i, ty, v, w) == [id |-> <<"widget", i>>, type |-> ty, visible |-> v, width |-> w]

\* The sessions that are merged in; ids 1 are ids the active session has too
IncomingSessions ==
    [categories : { <<Food, Transport>> },
     rules : { <<>>, <<[keyword |-> <<"A">>, category |-> Food, isRegex |-> FALSE],
                       [keyword |-> <<"B">>, category |-> Food, isRegex |-> FALSE]>> },
     transactions : { <<>>,
                      <<ManualTransaction(1, <<"A", "b">>, Food)>>,
                      <<ManualTransaction(3, <<"b", "(">>, Transport)>>,
                      <<ManualTransaction(1, <<"A", "b">>, Food),
                        ManualTransaction(3, <<"b", "(">>, Transport)>> },
     assets : { <<>>, <<Asset(1, "Car"), Asset(2, "Boat")>> },
     goals : { <<>>, <<Goal(1, "Trip")>> },
     dashboardWidgets : { <<>>,
                          <<Widget(1, "net-worth", FALSE, "half"),
                            Widget(2, "custom", TRUE, "full")>> }]

ImportSelections ==
    [categories : BOOLEAN, rules : BOOLEAN, transactions : BOOLEAN,
     assets : BOOLEAN, dashboard : BOOLEAN, goals : BOOLEAN]

InitMerge ==
    /\ pc = "session"
    /\ transactions = <<ManualTransaction(1, <<"A", "b">>, UNCATEGORIZED),
                        ManualTransaction(2, <<"b", "(">>, Food)>>
    /\ inactive = <<ManualTransaction(1, <<"A", "b">>, UNCATEGORIZED)>>
    /\ categories = DEFAULT_CATEGORIES
    /\ rules = <<[keyword |-> <<"a">>, category |-> Transport, isRegex |-> FALSE]>>
    /\ assets = <<Asset(1, "House")>>
    /\ goals = <<Goal(1, "Rainy day")>>
    /\ dashboardWidgets = <<Widget(1, "net-worth", TRUE, "full"),
                            Widget(2, "custom", TRUE, "half")>>
    /\ rnd = 0
    /\ settings = defaultSettings
    /\ now \in 0..1
    /\ host = None
    /\ upload = <<>>
    /\ isCategorizing = FALSE
    /\ aiCall = <<>>
    /\ applied = NoOutcome
    /\ reapplied = NoOutcome
    /\ reordered = None
    /\ appliedReordered = NoOutcome
    /\ rawData = <<>>
    /\ mapping = None
    /\ parsed = None
    /\ NoBulk
    /\ NoWizard
    /\ args \in [incomingData : IncomingSessions, selection : ImportSelections]
    /\ ret = <<>>
    /\ NoSessions
    /\ NoApp

\* mergeSession(incomingData, selection): the updater of setSessions on the
\* active session; the other sessions are returned as they are
MergeSession ==
    /\ pc = "session"
    /\ pc' = "merged"
    /\ categories' = IF args.selection.categories
                     THEN Union(categories, args.incomingData.categories)
                     ELSE categories
    /\ rules' = IF args.selection.rules
                THEN rules \o RulesToAdd(rules, args.incomingData.rules)
                ELSE rules
    /\ transactions' = IF args.selection.transactions
                       THEN transactions
                            \o TxToAdd(transactions, args.incomingData.transactions)
                       ELSE transactions
    /\ assets' = IF args.selection.assets
                 THEN assets \o Reidentified(args.incomingData.assets, "asset", now, rnd)
                 ELSE assets
    /\ dashboardWidgets' =
           IF args.selection.dashboard
           THEN UpdatedWidgets(dashboardWidgets, args.incomingData.dashboardWidgets)
                \o Reidentified(CustomWidgets(args.incomingData.dashboardWidgets),
                                "widget", now,
                                rnd + (IF args.selection.assets
                                       THEN Len(args.incomingData.assets) ELSE 0))
           ELSE dashboardWidgets
    /\ goals' = IF args.selection.goals
                THEN goals \o Reidentified(
                         args.incomingData.goals, "goal", now,
                         rnd + (IF args.selection.assets
                                THEN Len(args.incomingData.assets) ELSE 0)
                             + (IF args.selection.dashboard
                                THEN Len(CustomWidgets(args.incomingData.dashboardWidgets))
                                ELSE 0))
                ELSE goals
    /\ rnd' = rnd + (IF args.selection.assets
                     THEN Len(args.incomingData.assets) ELSE 0)
                  + (IF args.selection.dashboard
                     THEN Len(CustomWidgets(args.incomingData.dashboardWidgets)) ELSE 0)
                  + (IF args.selection.goals
                     THEN Len(args.incomingData.goals) ELSE 0)
    /\ UNCHANGED <<settings, now, host, upload, inactive, isCategorizing, aiCall,
                   args, ret, engineVars, mapperVars, bulkVars, wizardVars,
                   sessionVars,
                   appVars>>

NextMerge == MergeSession

SpecMerge == InitMerge /\ [][NextMerge]_vars

\* xs holds an entity that is x but for its id
HoldsButForId(xs, x) ==
    \E k \in 1..Len(xs) : [xs[k] EXCEPT !.id = 0] = [x EXCEPT !.id = 0]

\* the ids of xs are pairwise distinct
DistinctIds(xs) == \A i, j \in 1..Len(xs) : i # j => xs[i].id # xs[j].id

\* C19: after mergeSession every incoming transaction, asset, goal and
\* custom widget of a selected kind is in the active session, under its own
\* or a regenerated id, and the ids of each collection are pairwise
\* distinct.
C19_MergeKeepsEveryEntity ==
    pc = "merged" =>
        /\ args.selection.transactions =>
              /\ \A k \in 1..Len(args.incomingData.transactions) :
                    HoldsButForId(transactions, args.incomingData.transactions[k])
              /\ DistinctIds(transactions)
        /\ args.selection.assets =>
              /\ \A k \in 1..Len(args.incomingData.assets) :
                    HoldsButForId(assets, args.incomingData.assets[k])
              /\ DistinctIds(assets)
        /\ args.selection.goals =>
              /\ \A k \in 1..Len(args.incomingData.goals) :
                    HoldsButForId(goals, args.incomingData.goals[k])
              /\ DistinctIds(goals)
        /\ args.selection.dashboard =>
              /\ \A k \in 1..Len(CustomWidgets(args.incomingData.dashboardWidgets)) :
                    HoldsButForId(dashboardWidgets,
                                  CustomWidgets(args.incomingData.dashboardWidgets)[k])
              /\ DistinctIds(dashboardWidgets)

----------------------------------------------------------------------------
(* The column mapping heuristic of the import wizard: guessMapping of      *)
(* SettingsView.tsx, called with the headers and the preview rows.         *)

MaxColumns == 3

\* Array.prototype.findIndex over the outcomes of the callback: 0-based
\* index of the first TRUE, -1 when there is none
FirstIndex(flags) ==
    IF \E i \in 1..Len(flags) : flags[i]
    THEN (CHOOSE i \in 1..Len(flags) :
              flags[i] /\ \A j \in 1..(i - 1) : ~flags[j]) - 1
    ELSE -1

HasDigit(c) == \E i \in 1..Len(c) : IsDigit(c[i])

\* c.match(/\d{1,4}[./-]\d{1,2}[./-]\d{1,4}/), unanchored: two separators
\* with one or two digits and nothing else between them, a digit before the
\* first and a digit after the second
DateLike(c) ==
    \E i, j \in 1..Len(c) :
        /\ c[i] \in {".", "/", "-"}
        /\ c[j] \in {".", "/", "-"}
        /\ j - i - 1 \in {1, 2}
        /\ \A k \in (i + 1)..(j - 1) : IsDigit(c[k])
        /\ i > 1 /\ IsDigit(c[i - 1])
        /\ j < Len(c) /\ IsDigit(c[j + 1])

\* c.match(/-?\d+[.,]?\d*/), unanchored: the sign, the separator and the
\* decimals are optional, so the pattern matches at the first digit of c
AmountLike(c) == HasDigit(c)

\* c.length > 5 && !c.match(/\d/)
TextLike(c) == Len(c) > 5 /\ ~HasDigit(c)

DateFallback(firstRow) ==
    FirstIndex([i \in 1..Len(firstRow) |-> DateLike(firstRow[i])])
AmountFallback(firstRow) ==
    FirstIndex([i \in 1..Len(firstRow) |-> AmountLike(firstRow[i])])
DescriptionFallback(firstRow) ==
    FirstIndex([i \in 1..Len(firstRow) |-> TextLike(firstRow[i])])

DateWords == {<<"d","a","t","e">>, <<"d","a","t","u","m">>, <<"z","e","i","t">>}
AmountWords == {<<"a","m","o","u","n","t">>, <<"b","e","t","r","a","g">>,
                <<"w","e","r","t">>, <<"s","a","l","d","o">>}
DescriptionWords == {<<"d","e","s","c">>, <<"t","e","x","t">>,
                     <<"v","e","r","w","e","n","d","u","n","g">>,
                     <<"p","a","y","e","e">>}
CategoryWords == {<<"c","a","t">>, <<"k","a","t","e","g","o","r","i","e">>}
TypeWords == {<<"t","y","p","e">>, <<"a","r","t">>}

\* the mapping guessMapping hands to setMapping
GuessedMapping(dateIdx, amountIdx, descIdx, catIdx, typeIdx, firstRow) ==
    [dateIndex |-> IF dateIdx = -1 THEN DateFallback(firstRow) ELSE dateIdx,
     descriptionIndex |-> IF descIdx = -1 THEN DescriptionFallback(firstRow)
                          ELSE descIdx,
     amountIndex |-> IF amountIdx = -1 THEN AmountFallback(firstRow)
                     ELSE amountIdx,
     categoryIndex |-> catIdx,
     typeIndex |-> typeIdx]

\* guessMapping(headers, rows); rows[0] || [] is the first row, or no cells
guessMapping(headers, rows) ==
    GuessedMapping(findIndex(headers, DateWords),
                   findIndex(headers, AmountWords),
                   findIndex(headers, DescriptionWords),
                   findIndex(headers, CategoryWords),
                   findIndex(headers, TypeWords),
                   IF Len(rows) = 0 THEN <<>> ELSE rows[1])

\* Headers of bank exports: a value date, a text, an amount, a number
GuessHeaders ==
    { <<"W","e","r","t","d","a","t","u","m">>, <<"T","e","x","t">>,
      <<"B","e","t","r","a","g">>, <<"N","r">> }

\* Cells of a first data row: a date, an amount, a long and a longer text, a
\* short text
GuessCells ==
    { <<"1",".","2",".","2","3">>, <<"-","1","2",",","5","0">>,
      <<"G","r","o","c","e","r","y">>,
      <<"S","u","p","e","r","m","a","r","k","e","t">>,
      <<"F","o","o","d">> }

GuessCalls ==
    [headers : [1..MaxColumns -> GuessHeaders],
     rows : {<<>>} \cup {<<r>> : r \in [1..MaxColumns -> GuessCells]}]

InitGuess ==
    /\ pc = "call"
    /\ args \in GuessCalls
    /\ mapping = NoMapping
    /\ ret = <<>>
    /\ host = Null
    /\ transactions = <<>>
    /\ rules = <<>>
    /\ applied = NoOutcome
    /\ reapplied = NoOutcome
    /\ reordered = None
    /\ appliedReordered = NoOutcome
    /\ rawData = <<>>
    /\ settings = None
    /\ parsed = None
    /\ now = 0
    /\ categories = <<>>
    /\ upload = <<>>
    /\ NoBulk
    /\ NoAi
    /\ NoWizard
    /\ NoMerge
    /\ NoSessions
    /\ NoApp

\* guessMapping(headers, rows) is called by handleFileSelect
CallGuessMapping ==
    /\ pc = "call"
    /\ mapping' = guessMapping(args.headers, args.rows)
    /\ pc' = "returned"
    /\ UNCHANGED <<transactions, rules, settings, now, host, categories, upload,
                   callVars, engineVars, rawData, parsed, bulkVars, aiVars,
                   wizardVars, mergeVars, sessionVars, appVars>>

NextGuess == CallGuessMapping

SpecGuess == InitGuess /\ [][NextGuess]_vars

\* The cells of the first data row that contain no digit, as 0-based indices
DigitFree(firstRow) == {i \in 0..(Len(firstRow) - 1) : ~HasDigit(firstRow[i + 1])}

\* C21: when no header matches the description role, descriptionIndex is the
\* index of the longest cell of the first data row that contains no digit
\* (-1 when every cell contains a digit).
C21_DescriptionIsLongestText ==
    (pc = "returned" /\ findIndex(args.headers, DescriptionWords) = -1
                     /\ args.rows # <<>>) =>
        LET firstRow == args.rows[1]
        IN  IF DigitFree(firstRow) = {}
            THEN mapping.descriptionIndex = -1
            ELSE /\ mapping.descriptionIndex \in DigitFree(firstRow)
                 /\ \A i \in DigitFree(firstRow) :
                       Len(firstRow[i + 1])
                           <= Len(firstRow[mapping.descriptionIndex + 1])

\* C27: the guessed dateIndex, amountIndex and descriptionIndex are pairwise
\* different whenever they are not -1.
C27_RolesGetDifferentColumns ==
    pc = "returned" =>
        /\ mapping.dateIndex # -1 => mapping.dateIndex # mapping.amountIndex
        /\ mapping.dateIndex # -1 => mapping.dateIndex # mapping.descriptionIndex
        /\ mapping.amountIndex # -1 =>
              mapping.amountIndex # mapping.descriptionIndex

----------------------------------------------------------------------------
(* The session hook: useSessionData of hooks/useSessionData.ts keeps the   *)
(* session list and the id of the active session; the category and source *)
(* handlers of SettingsView.tsx and the handlers of App.tsx call its       *)
(* update functions.  Ids and names are tuples: `session-${t}` is          *)
(* <<"session", t>>.                                                       *)

MaxSessions == 3

DefaultSessionId == <<"default-session">>
SessionId(t) == <<"session", t>>

\* const initialTransactions, initialAssets, initialGoals and defaultWidgets,
\* the first entries of each
initialTransactions ==
    << ManualTransaction(1, <<"A", "b">>, DEFAULT_CATEGORIES[8]),
       ManualTransaction(2, <<"b", "(">>, DEFAULT_CATEGORIES[4]) >>
initialAssets == << Asset(1, "Main Checking") >>
initialGoals == << Goal(1, "Summer Vacation") >>
defaultWidgets == << Widget(1, "net-worth", TRUE, "full") >>

\* useState<Session[]>([...]): the session the hook starts with
DefaultSession ==
    [id |-> DefaultSessionId,
     name |-> <<"Personal Finance">>,
     transactions |-> initialTransactions,
     categories |-> DEFAULT_CATEGORIES,
     rules |-> <<>>,
     assets |-> initialAssets,
     goals |-> initialGoals,
     sources |-> <<"Manual Entry">>,
     dashboardWidgets |-> defaultWidgets,
     createdAt |-> 0,
     importSettings |-> defaultSettings]

\* newSession of addSession
NewSession(name, t) ==
    [id |-> SessionId(t),
     name |-> <<name>>,
     transactions |-> <<>>,
     categories |-> DEFAULT_CATEGORIES,
     rules |-> <<>>,
     assets |-> <<>>,
     goals |-> <<>>,
     sources |-> <<>>,
     dashboardWidgets |-> defaultWidgets,
     createdAt |-> t,
     importSettings |-> defaultSettings]

\* newSession of importSession: the spread of sessionData, with id, name,
\* dashboardWidgets, goals, sources and createdAt set after it
ImportedSession(sessionData, t) ==
    [id |-> SessionId(t),
     name |-> IF "name" \in DOMAIN sessionData
              THEN <<sessionData.name, " (Imported)">>
              ELSE <<"Imported Session">>,
     transactions |-> sessionData.transactions,
     categories |-> sessionData.categories,
     rules |-> sessionData.rules,
     assets |-> sessionData.assets,
     goals |-> IF "goals" \in DOMAIN sessionData THEN sessionData.goals ELSE <<>>,
     sources |-> IF "sources" \in DOMAIN sessionData THEN sessionData.sources
                 ELSE <<"Imported">>,
     dashboardWidgets |-> IF "dashboardWidgets" \in DOMAIN sessionData
                          THEN sessionData.dashboardWidgets ELSE defaultWidgets,
     createdAt |-> t,
     importSettings |-> sessionData.importSettings]

\* useMemo of activeSession: sessions.find(s => s.id === activeSessionId)
\* || sessions[0], as an index
ActiveIndex(ss, id) ==
    IF \E k \in 1..Len(ss) : ss[k].id = id
    THEN CHOOSE k \in 1..Len(ss) :
             /\ ss[k].id = id
             /\ \A j \in 1..(k - 1) : ss[j].id # id
    ELSE 1

ActiveSession(ss, id) == ss[ActiveIndex(ss, id)]

\* prev.map(s => s.id === activeSessionId ? ... : s), with updated[k] the
\* outcome of the update for session k
OnActive(ss, id, updated) ==
    [k \in 1..Len(ss) |-> IF ss[k].id = id THEN updated[k] ELSE ss[k]]

\* t.source === sourceName; a transaction without a source has undefined
HasSource(t, sourceName) == "source" \in DOMAIN t /\ t.source = sourceName

\* Variant: the transactions without a source go with the deleted source
deleteSourceWithUnlabelled(s, sourceName) ==
    [s EXCEPT !.sources = SelectSeq(s.sources, LAMBDA src : src # sourceName),
              !.transactions =
                  SelectSeq(s.transactions,
                            LAMBDA t : "source" \in DOMAIN t /\ t.source # sourceName)]

\* the callback of deleteSource
deleteSource(s, sourceName) ==
    [s EXCEPT !.sources = SelectSeq(s.sources, LAMBDA src : src # sourceName),
              !.transactions =
                  SelectSeq(s.transactions, LAMBDA t : ~HasSource(t, sourceName))]

\* t => t.category === from ? { ...t, category: to } : t, over a list
Renamed(txs, from, to) ==
    [i \in 1..Len(txs) |->
        IF txs[i].category = from THEN [txs[i] EXCEPT !.category = to] ELSE txs[i]]

\* Variant: the category list is replaced and the transactions are left
updateCategoriesListOnly(s, newCategories, renamedFrom, renamedTo) ==
    [s EXCEPT !.categories = newCategories]

\* the callback of updateCategories; renamedFrom and renamedTo are optional
updateCategories(s, newCategories, renamedFrom, renamedTo) ==
    [s EXCEPT !.categories = newCategories,
              !.transactions =
                  IF Truthy(renamedFrom) /\ Truthy(renamedTo)
                  THEN Renamed(s.transactions, renamedFrom, renamedTo)
                  ELSE s.transactions]

\* how many random numbers one call of the callback of mergeSession draws
Draws(incomingData, selection) ==
    (IF selection.assets THEN Len(incomingData.assets) ELSE 0)
    + (IF selection.dashboard
       THEN Len(CustomWidgets(incomingData.dashboardWidgets)) ELSE 0)
    + (IF selection.goals THEN Len(incomingData.goals) ELSE 0)

\* merged, the outcome of the callback of mergeSession for the session s
Merged(s, incomingData, selection, t, r) ==
    [s EXCEPT
        !.categories = IF selection.categories
                       THEN Union(s.categories, incomingData.categories)
                       ELSE s.categories,
        !.rules = IF selection.rules
                  THEN s.rules \o RulesToAdd(s.rules, incomingData.rules)
                  ELSE s.rules,
        !.transactions = IF selection.transactions
                         THEN s.transactions
                              \o TxToAdd(s.transactions, incomingData.transactions)
                         ELSE s.transactions,
        !.assets = IF selection.assets
                   THEN s.assets \o Reidentified(incomingData.assets, "asset", t, r)
                   ELSE s.assets,
        !.dashboardWidgets =
            IF selection.dashboard
            THEN UpdatedWidgets(s.dashboardWidgets, incomingData.dashboardWidgets)
                 \o Reidentified(CustomWidgets(incomingData.dashboardWidgets),
                                 "widget", t,
                                 r + (IF selection.assets
                                      THEN Len(incomingData.assets) ELSE 0))
            ELSE s.dashboardWidgets,
        !.goals = IF selection.goals
                  THEN s.goals \o Reidentified(
                           incomingData.goals, "goal", t,
                           r + (IF selection.assets
                                THEN Len(incomingData.assets) ELSE 0)
                             + (IF selection.dashboard
                                THEN Len(CustomWidgets(incomingData.dashboardWidgets))
                                ELSE 0))
                  ELSE s.goals]

\* Inputs of the session scenarios
Pets == <<"P","e","t","s">>
BankTransaction ==
    [ManualTransaction(3, <<"A", "b">>, DEFAULT_CATEGORIES[1]) EXCEPT !.source = "Bank"]
\* a transaction of the file import: it has no source
UnlabelledTransaction ==
    [id |-> ImportId(0, 0), date |-> SampleDate, description |-> <<"b", "(">>,
     amount |-> SampleAmount, type |-> "EXPENSE", category |-> UNCATEGORIZED]

\* The session files that are imported: an export of this application
SessionFiles ==
    { [name |-> "Shared",
       transactions |-> <<BankTransaction,
                          ManualTransaction(1, <<"A", "b">>, DEFAULT_CATEGORIES[1]),
                          UnlabelledTransaction>>,
       categories |-> <<DEFAULT_CATEGORIES[1], UNCATEGORIZED>>,
       rules |-> <<>>,
       assets |-> <<>>,
       goals |-> <<>>,
       sources |-> <<"Bank", "Manual Entry">>,
       importSettings |-> defaultSettings] }

\* The categories the user picks in the category list, and the names typed
PickedCategories == {UNCATEGORIZED, DEFAULT_CATEGORIES[1], DEFAULT_CATEGORIES[8]}
TypedCategories == {Pets, DEFAULT_CATEGORIES[1]}

\* The sessions that are merged into the active one, and what is selected
MergeCalls ==
    [incomingData :
        { [categories |-> <<Pets>>,
           rules |-> <<[id |-> <<"rule", 0>>, keyword |-> <<"a">>,
                        category |-> Pets, isRegex |-> FALSE]>>,
           transactions |-> <<BankTransaction>>,
           assets |-> <<Asset(1, "Car")>>,
           goals |-> <<Goal(1, "Trip")>>,
           dashboardWidgets |-> <<Widget(2, "custom", TRUE, "full")>>] },
     selection :
        { [categories |-> b, rules |-> b, transactions |-> b,
           assets |-> ~b, dashboard |-> ~b, goals |-> ~b] : b \in BOOLEAN }]

\* What the session scenarios leave alone
besideSessions ==
    <<transactions, rules, settings, host, categories, upload, ret, engineVars,
      mapperVars, bulkVars, aiVars, wizardVars, assets, goals, dashboardWidgets,
      appVars>>

InitSessions ==
    /\ pc = "sessions"
    /\ sessions = <<DefaultSession>>
    /\ activeSessionId = DefaultSessionId
    /\ now = 0
    /\ host = Null
    /\ transactions = <<>>
    /\ rules = <<>>
    /\ applied = NoOutcome
    /\ reapplied = NoOutcome
    /\ reordered = None
    /\ appliedReordered = NoOutcome
    /\ rawData = <<>>
    /\ mapping = None
    /\ settings = None
    /\ parsed = None
    /\ categories = <<>>
    /\ upload = <<>>
    /\ NoCall
    /\ NoBulk
    /\ NoAi
    /\ NoWizard
    /\ NoMerge
    /\ NoApp

\* addSession(name)
AddSession ==
    /\ pc = "sessions"
    /\ Len(sessions) < MaxSessions
    /\ sessions' = Append(sessions, NewSession("Trip", now))
    /\ activeSessionId' = SessionId(now)
    /\ UNCHANGED <<pc, now, rnd, args, besideSessions>>

\* importSession(sessionData), called by handleImportSessionFile
ImportSession ==
    /\ pc = "sessions"
    /\ Len(sessions) < MaxSessions
    /\ \E sessionData \in SessionFiles :
          sessions' = Append(sessions, ImportedSession(sessionData, now))
    /\ activeSessionId' = SessionId(now)
    /\ UNCHANGED <<pc, now, rnd, args, besideSessions>>

\* removeSession(sessionId), with the id of a session of the side bar.  With
\* a single session it returns at once.  When the filter leaves no session,
\* newSessions[0].id throws a TypeError after setSessions was called.
RemoveSession ==
    /\ pc = "sessions"
    /\ Len(sessions) > 1
    /\ \E k \in 1..Len(sessions) :
          LET sessionId == sessions[k].id
              newSessions == SelectSeq(sessions, LAMBDA s : s.id # sessionId)
          IN  /\ sessions' = newSessions
              /\ activeSessionId' =
                     IF activeSessionId = sessionId /\ newSessions # <<>>
                     THEN newSessions[1].id
                     ELSE activeSessionId
              /\ pc' = IF activeSessionId = sessionId /\ newSessions = <<>>
                       THEN "TypeError" ELSE pc
    /\ UNCHANGED <<now, rnd, args, besideSessions>>

\* setActiveSessionId(session.id), the click on a session of the side bar
SetActiveSessionId ==
    /\ pc = "sessions"
    /\ \E k \in 1..Len(sessions) :
          /\ sessions[k].id # activeSessionId
          /\ activeSessionId' = sessions[k].id
    /\ UNCHANGED <<pc, sessions, now, rnd, args, besideSessions>>

\* handleDeleteSource(sourceName), confirmed: deleteSource(sourceName)
HandleDeleteSource ==
    /\ pc = "sessions"
    /\ \E sourceName \in {"Manual Entry", "Bank"} :
          /\ Contains(ActiveSession(sessions, activeSessionId).sources, sourceName)
          /\ args' = [of |-> "deleteSource", sourceName |-> sourceName,
                      count |-> Len(SelectSeq(
                                   ActiveSession(sessions, activeSessionId).transactions,
                                   LAMBDA t : HasSource(t, sourceName)))]
          /\ sessions' = OnActive(sessions, activeSessionId,
                             [k \in 1..Len(sessions) |->
                                 deleteSource(sessions[k], sourceName)])
    /\ pc' = "updated"
    /\ UNCHANGED <<activeSessionId, now, rnd, besideSessions>>

\* handleAddCategory with newCategoryName typed, already trimmed
HandleAddCategory ==
    /\ pc = "sessions"
    /\ \E newCategoryName \in TypedCategories :
          LET activeSession == ActiveSession(sessions, activeSessionId)
          IN  /\ ~Contains(activeSession.categories, newCategoryName)
              /\ args' = [of |-> "handleAddCategory", name |-> newCategoryName]
              /\ sessions' = OnActive(sessions, activeSessionId,
                                 [k \in 1..Len(sessions) |->
                                     updateCategories(
                                         sessions[k],
                                         Append(activeSession.categories, newCategoryName),
                                         Undefined, Undefined)])
    /\ pc' = "updated"
    /\ UNCHANGED <<activeSessionId, now, rnd, besideSessions>>

\* handleDeleteCategory(categoryToDelete), confirmed: updateTransactions with
\* the cascade, then updateCategories with the filtered list
HandleDeleteCategory ==
    /\ pc = "sessions"
    /\ \E categoryToDelete \in PickedCategories :
          LET activeSession == ActiveSession(sessions, activeSessionId)
              newCategories == SelectSeq(activeSession.categories,
                                         LAMBDA c : c # categoryToDelete)
          IN  /\ Contains(activeSession.categories, categoryToDelete)
              /\ categoryToDelete # UNCATEGORIZED
              /\ args' = [of |-> "handleDeleteCategory", name |-> categoryToDelete]
              /\ sessions' = OnActive(sessions, activeSessionId,
                                 [k \in 1..Len(sessions) |->
                                     updateCategories(
                                         [sessions[k] EXCEPT !.transactions =
                                             Renamed(sessions[k].transactions,
                                                     categoryToDelete, UNCATEGORIZED)],
                                         newCategories, Undefined, Undefined)])
    /\ pc' = "updated"
    /\ UNCHANGED <<activeSessionId, now, rnd, besideSessions>>

\* saveEditedCategory with editingCategory = { oldName, newName }
SaveEditedCategory ==
    /\ pc = "sessions"
    /\ \E oldName \in PickedCategories, newName \in TypedCategories :
          LET activeSession == ActiveSession(sessions, activeSessionId)
              newCategories == [i \in 1..Len(activeSession.categories) |->
                                   IF activeSession.categories[i] = oldName
                                   THEN newName ELSE activeSession.categories[i]]
          IN  /\ Contains(activeSession.categories, oldName)
              /\ trim(newName) # <<>>
              /\ newName # oldName
              /\ ~Contains(activeSession.categories, newName)
              /\ args' = [of |-> "saveEditedCategory", name |-> oldName,
                          newName |-> newName]
              /\ sessions' = OnActive(sessions, activeSessionId,
                                 [k \in 1..Len(sessions) |->
                                     updateCategories(sessions[k], newCategories,
                                                      oldName, newName)])
    /\ pc' = "updated"
    /\ UNCHANGED <<activeSessionId, now, rnd, besideSessions>>

\* updateTransactions, updateRules, updateSettings, updateAssets, updateGoals
\* and updateSessionRaw, each with an updater that replaces the field (the
\* session, for updateSessionRaw) by its value after the update
UpdateField ==
    /\ pc = "sessions"
    /\ \E of \in {"updateTransactions", "updateRules", "updateSettings",
                  "updateAssets", "updateGoals", "updateSessionRaw"} :
          /\ args' = [of |-> of]
          /\ sessions' =
                OnActive(sessions, activeSessionId,
                    [k \in 1..Len(sessions) |->
                        CASE of = "updateTransactions" ->
                                 [sessions[k] EXCEPT !.transactions =
                                     Append(@, UnlabelledTransaction)]
                          [] of = "updateRules" ->
                                 [sessions[k] EXCEPT !.rules =
                                     Append(@, [id |-> <<"rule", now>>,
                                                keyword |-> <<"a">>, category |-> Pets,
                                                isRegex |-> FALSE])]
                          [] of = "updateSettings" ->
                                 [sessions[k] EXCEPT
                                     !.importSettings.decimalSeparator = "."]
                          [] of = "updateAssets" ->
                                 [sessions[k] EXCEPT !.assets = Append(@, Asset(2, "Car"))]
                          [] of = "updateGoals" ->
                                 [sessions[k] EXCEPT !.goals = Append(@, Goal(2, "Trip"))]
                          [] of = "updateSessionRaw" ->
                                 [sessions[k] EXCEPT
                                     !.categories = Append(@, Pets),
                                     !.transactions = Append(@, UnlabelledTransaction)]])
    /\ pc' = "updated"
    /\ UNCHANGED <<activeSessionId, now, rnd, besideSessions>>

\* mergeSession(incomingData, selection)
MergeIntoActive ==
    /\ pc = "sessions"
    /\ \E call \in MergeCalls :
          /\ args' = [of |-> "mergeSession", selection |-> call.selection]
          /\ sessions' =
                OnActive(sessions, activeSessionId,
                    [k \in 1..Len(sessions) |->
                        Merged(sessions[k], call.incomingData, call.selection, now,
                               rnd + (k - 1) * Draws(call.incomingData, call.selection))])
          /\ rnd' = rnd + Len(sessions) * Draws(call.incomingData, call.selection)
    /\ pc' = "updated"
    /\ UNCHANGED <<activeSessionId, now, besideSessions>>

NextSessions ==
    \/ Tick
    \/ AddSession
    \/ ImportSession
    \/ RemoveSession
    \/ SetActiveSessionId
    \/ HandleDeleteSource
    \/ HandleAddCategory
    \/ HandleDeleteCategory
    \/ SaveEditedCategory
    \/ UpdateField
    \/ MergeIntoActive

SpecSessions == InitSessions /\ [][NextSessions]_vars

\* C22: deleteSource(name) removes from the active session exactly the
\* transactions whose source equals name and removes name from the sources
\* list; every other transaction stays, unchanged and in the same order, and
\* rules, categories, assets and goals are unchanged.
C22_DeleteSourceRemovesItsTransactions ==
    [][(pc = "sessions" /\ pc' = "updated" /\ args'.of = "deleteSource") =>
          LET a == ActiveIndex(sessions, activeSessionId)
              before == sessions[a]
              after == sessions'[a]
          IN  /\ Len(sessions') = Len(sessions)
              /\ after.transactions =
                    SelectSeq(before.transactions,
                              LAMBDA t : ~("source" \in DOMAIN t
                                           /\ t.source = args'.sourceName))
              /\ after.sources =
                    SelectSeq(before.sources, LAMBDA src : src # args'.sourceName)
              /\ after.rules = before.rules
              /\ after.categories = before.categories
              /\ after.assets = before.assets
              /\ after.goals = before.goals]_vars

C22_Witness ==
    /\ pc = "updated"
    /\ args.of = "deleteSource"
    /\ args.sourceName = "Bank"
    /\ args.count = 1
    /\ Len(sessions) = 2
    /\ ActiveSession(sessions, activeSessionId).sources = <<"Manual Entry">>
    /\ Len(ActiveSession(sessions, activeSessionId).transactions) = 2
    /\ \E i \in 1..2 :
          "source" \notin DOMAIN ActiveSession(sessions, activeSessionId).transactions[i]

\* C23: after renaming category A to B every transaction of the active
\* session that had category A has category B, after deleting category A
\* every such transaction has category Uncategorized; in both cases no
\* transaction of the active session still has category A and all other
\* transactions are unchanged.
C23_CategoryCascade ==
    [][(pc = "sessions" /\ pc' = "updated"
           /\ args'.of \in {"saveEditedCategory", "handleDeleteCategory"}) =>
          LET a == ActiveIndex(sessions, activeSessionId)
              before == sessions[a].transactions
              after == sessions'[a].transactions
              to == IF args'.of = "saveEditedCategory" THEN args'.newName
                    ELSE UNCATEGORIZED
          IN  /\ Len(after) = Len(before)
              /\ \A i \in 1..Len(before) :
                    /\ before[i].category = args'.name =>
                          after[i] = [before[i] EXCEPT !.category = to]
                    /\ before[i].category # args'.name => after[i] = before[i]
                    /\ after[i].category # args'.name]_vars

C23_Witness ==
    /\ pc = "updated"
    /\ args.of = "saveEditedCategory"
    /\ args.name = DEFAULT_CATEGORIES[1]
    /\ args.newName = Pets
    /\ LET txs == ActiveSession(sessions, activeSessionId).transactions
       IN  /\ Len(txs) = 3
           /\ txs[1].category = Pets
           /\ txs[2].category = Pets
           /\ txs[3].category = UNCATEGORIZED
    /\ Contains(ActiveSession(sessions, activeSessionId).categories, Pets)
    /\ ~Contains(ActiveSession(sessions, activeSessionId).categories,
                 DEFAULT_CATEGORIES[1])

\* C24: after any sequence of addSession, importSession, removeSession and
\* setActiveSessionId the session list is never empty and activeSessionId is
\* the id of exactly one session of the list.
C24_OneActiveSession ==
    /\ Len(sessions) >= 1
    /\ Cardinality({k \in 1..Len(sessions) : sessions[k].id = activeSessionId}) = 1

\* C25: every update operation of the session hook changes only the session
\* that is active when it is called: every other session of the list is left
\* unchanged.
C25_OnlyActiveSessionChanges ==
    [][(pc = "sessions" /\ pc' = "updated") =>
          /\ Len(sessions') = Len(sessions)
          /\ \A k \in 1..Len(sessions) :
                k # ActiveIndex(sessions, activeSessionId) =>
                    sessions'[k] = sessions[k]]_vars

\* C26: the category Uncategorized is in the category list of every session.
C26_SentinelInEveryList ==
    \A k \in 1..Len(sessions) : Contains(sessions[k].categories, UNCATEGORIZED)

----------------------------------------------------------------------------
(* What the user does while handleAutoCategorize waits for its answer: the *)
(* category clean-up (handleSanitizeCategories, confirmSanitization) and   *)
(* the category change of a transaction, each with its modal, in App.tsx.  *)

\* categoriesToRemove of handleSanitizeCategories
CategoriesToRemove(txs, cats) ==
    SelectSeq(cats, LAMBDA c : /\ \A i \in 1..Len(txs) : txs[i].category # c
                               /\ c # UNCATEGORIZED)

\* similarTransactions of handleTransactionCategoryChange
SimilarTransactions(txs, target, newCategory) ==
    SelectSeq(txs, LAMBDA t :
        /\ t.id # target.id
        /\ toLowerCase(trim(t.description)) = toLowerCase(trim(target.description))
        /\ t.category # newCategory)

\* prev.map(t => ids.includes(t.id) ? { ...t, category: newCategory } : t)
WithCategory(prev, ids, newCategory) ==
    [i \in 1..Len(prev) |->
        IF prev[i].id \in ids THEN [prev[i] EXCEPT !.category = newCategory]
        ELSE prev[i]]

InitPending ==
    /\ pc = "session"
    /\ transactions \in AiTransactionLists
    /\ categories = <<Food, Transport, UNCATEGORIZED>>
    /\ inactive = <<>>
    /\ isCategorizing = FALSE
    /\ aiCall = <<>>
    /\ rules = <<>>
    /\ settings = defaultSettings
    /\ now = 0
    /\ host = None
    /\ upload = <<>>
    /\ applied = NoOutcome
    /\ reapplied = NoOutcome
    /\ reordered = None
    /\ appliedReordered = NoOutcome
    /\ rawData = <<>>
    /\ mapping = None
    /\ parsed = None
    /\ NoCall
    /\ NoBulk
    /\ NoWizard
    /\ NoMerge
    /\ NoSessions
    /\ NoApp

\* handleSanitizeCategories
HandleSanitizeCategories ==
    /\ NoModal
    /\ sanitizationProposal' =
           <<[totalCount |-> Len(categories),
              unusedCount |-> Len(CategoriesToRemove(transactions, categories)),
              unusedCategories |-> CategoriesToRemove(transactions, categories)]>>
    /\ UNCHANGED <<pc, transactions, rules, settings, now, host, categories, upload,
                   sanitizationResult, isGeneratingRules, generation,
                   bulkUpdateProposal, engineVars, mapperVars, callVars, bulkVars,
                   aiVars, wizardVars, mergeVars, sessionVars>>

\* confirmSanitization, the Confirm button of the proposal modal
ConfirmSanitization ==
    /\ sanitizationProposal # <<>>
    /\ IF sanitizationProposal[1].unusedCount > 0
       THEN /\ categories' =
                   SelectSeq(categories,
                             LAMBDA c : ~Contains(sanitizationProposal[1].unusedCategories, c))
            /\ sanitizationResult' =
                   <<[count |-> Len(sanitizationProposal[1].unusedCategories),
                      categories |-> sanitizationProposal[1].unusedCategories]>>
       ELSE UNCHANGED <<categories, sanitizationResult>>
    /\ sanitizationProposal' = <<>>
    /\ UNCHANGED <<pc, transactions, rules, settings, now, host, upload,
                   isGeneratingRules, generation, bulkUpdateProposal, engineVars,
                   mapperVars, callVars, bulkVars, aiVars, wizardVars, mergeVars,
                   sessionVars>>

\* onCancel of the proposal modal and onClose of the result modal
CloseSanitization ==
    /\ \/ /\ sanitizationProposal # <<>>
          /\ sanitizationProposal' = <<>>
          /\ UNCHANGED sanitizationResult
       \/ /\ sanitizationResult # <<>>
          /\ sanitizationResult' = <<>>
          /\ UNCHANGED sanitizationProposal
    /\ UNCHANGED <<pc, transactions, rules, settings, now, host, categories, upload,
                   isGeneratingRules, generation, bulkUpdateProposal, engineVars,
                   mapperVars, callVars, bulkVars, aiVars, wizardVars, mergeVars,
                   sessionVars>>

\* handleTransactionCategoryChange(transactionId, newCategory): the user
\* picks another category of the list for a transaction
HandleTransactionCategoryChange ==
    /\ NoModal
    /\ \E k \in 1..Len(transactions), c \in 1..Len(categories) :
          LET targetTransaction == transactions[k]
              newCategory == categories[c]
              similarTransactions ==
                  SimilarTransactions(transactions, targetTransaction, newCategory)
          IN  /\ targetTransaction.category # newCategory
              /\ transactions' = WithCategory(transactions, {targetTransaction.id},
                                              newCategory)
              /\ bulkUpdateProposal' =
                     IF Len(similarTransactions) > 0
                     THEN <<[targetDescription |-> targetTransaction.description,
                             newCategory |-> newCategory,
                             count |-> Len(similarTransactions),
                             transactionIds |->
                                 [i \in 1..Len(similarTransactions) |->
                                     similarTransactions[i].id]]>>
                     ELSE bulkUpdateProposal
    /\ UNCHANGED <<pc, rules, settings, now, host, categories, upload,
                   sanitizationProposal, sanitizationResult, isGeneratingRules,
                   generation, engineVars, mapperVars, callVars, bulkVars, aiVars,
                   wizardVars, mergeVars, sessionVars>>

\* confirmBulkUpdate(createRule)
ConfirmBulkUpdate ==
    /\ bulkUpdateProposal # <<>>
    /\ transactions' =
           WithCategory(transactions,
                        {bulkUpdateProposal[1].transactionIds[i] :
                            i \in 1..Len(bulkUpdateProposal[1].transactionIds)},
                        bulkUpdateProposal[1].newCategory)
    /\ \E createRule \in BOOLEAN :
          /\ createRule => Len(rules) < MaxRules
          /\ rules' = IF createRule
                      THEN Append(rules,
                               [keyword |-> toLowerCase(bulkUpdateProposal[1].targetDescription),
                                category |-> bulkUpdateProposal[1].newCategory,
                                isRegex |-> FALSE])
                      ELSE rules
    /\ bulkUpdateProposal' = <<>>
    /\ UNCHANGED <<pc, settings, now, host, categories, upload,
                   sanitizationProposal, sanitizationResult, isGeneratingRules,
                   generation, engineVars, mapperVars, callVars, bulkVars, aiVars,
                   wizardVars, mergeVars, sessionVars>>

\* onCancel of the bulk update modal
CancelBulkUpdate ==
    /\ bulkUpdateProposal # <<>>
    /\ bulkUpdateProposal' = <<>>
    /\ UNCHANGED <<pc, transactions, rules, settings, now, host, categories, upload,
                   sanitizationProposal, sanitizationResult, isGeneratingRules,
                   generation, engineVars, mapperVars, callVars, bulkVars, aiVars,
                   wizardVars, mergeVars, sessionVars>>

NextPending ==
    \/ AutoCategorizeStart
    \/ AiRespond
    \/ AutoCategorizeDone
    \/ HandleSanitizeCategories
    \/ ConfirmSanitization
    \/ CloseSanitization
    \/ HandleTransactionCategoryChange
    \/ ConfirmBulkUpdate
    \/ CancelBulkUpdate

SpecPending == InitPending /\ [][NextPending]_vars

\* C28: confirmSanitization removes only categories that no transaction of
\* the active session has at the moment of confirmation.
C28_SanitizationKeepsUsedCategories ==
    [][(sanitizationProposal # <<>> /\ sanitizationProposal' = <<>>) =>
          \A k \in 1..Len(categories) :
              ~Contains(categories', categories[k]) =>
                  \A i \in 1..Len(transactions) :
                      transactions[i].category # categories[k]]_vars

\* C29: when the result of handleAutoCategorize is applied, only
\* transactions whose category is Uncategorized or General at that moment,
\* and whose id was in the request, get a new category.
C29_AiChangesOnlyUncategorized ==
    [][(pc = "responded" /\ pc' = "session") =>
          /\ Len(transactions') = Len(transactions)
          /\ \A i \in 1..Len(transactions) :
                transactions'[i] # transactions[i] =>
                    /\ NeedsCategory(transactions[i])
                    /\ \E k \in 1..Len(aiCall[1].sent) :
                          aiCall[1].sent[k].id = transactions[i].id]_vars

----------------------------------------------------------------------------
(* Rule generation: handleGenerateRules of App.tsx asks                    *)
(* generateRulesFromHistory of services/gemini.ts for rules, adds the new  *)
(* ones to the session and, when the user confirms, applies them.          *)

\* transactions.length < 5 of generateRulesFromHistory
MinHistory == 5

\* What generateContent can come back with: a rejection, or the JSON of a
\* list of {keyword, category}
RuleResponses ==
    {[kind |-> "rejected", rawRules |-> <<>>]}
    \cup {[kind |-> "JSON", rawRules |-> raw] :
             raw \in SeqsUpTo([keyword : {<<"a">>, <<"B">>}, category : RuleCategories], 1)}

\* generateRulesFromHistory once generateContent has come back; the rules
\* it returns have no isRegex
generateRulesFromHistory(txs, response) ==
    IF Len(txs) < MinHistory THEN <<>>
    ELSE IF response.kind = "rejected" THEN <<>>
    ELSE [k \in 1..Len(response.rawRules) |->
             [keyword |-> toLowerCase(response.rawRules[k].keyword),
              category |-> response.rawRules[k].category,
              isRegex |-> FALSE]]

\* uniqueNewRules: the new rules whose keyword no existing rule has
UniqueNewRules(newRules, existing) ==
    SelectSeq(newRules,
              LAMBDA r : \A k \in 1..Len(existing) : existing[k].keyword # r.keyword)

\* Histories of MinHistory - 1 and of MinHistory transactions, none of them
\* categorized by hand
HistoryLists ==
    UNION {{[i \in 1..n |->
                ManualTransaction(i, IF i <= 2 THEN f[i] ELSE <<"b", "(">>,
                                  UNCATEGORIZED)] :
               f \in [1..2 -> {<<"A", "b">>, <<"b", "(">>}]} :
           n \in {MinHistory - 1, MinHistory}}

\* The session holds a history with its rules applied
InitGenerate ==
    /\ pc = "session"
    /\ rules \in RuleLists
    /\ \E history \in HistoryLists :
          transactions = applyRulesToTransactions(history, rules).value
    /\ categories = <<Food, Transport, UNCATEGORIZED>>
    /\ settings = defaultSettings
    /\ now = 0
    /\ host = None
    /\ upload = <<>>
    /\ applied = NoOutcome
    /\ reapplied = NoOutcome
    /\ reordered = None
    /\ appliedReordered = NoOutcome
    /\ rawData = <<>>
    /\ mapping = None
    /\ parsed = None
    /\ NoCall
    /\ NoBulk
    /\ NoAi
    /\ NoWizard
    /\ NoMerge
    /\ NoSessions
    /\ NoApp

\* handleGenerateRules up to its await; the handler keeps the activeSession
\* of this render
GenerateRulesStart ==
    /\ pc = "session"
    /\ ~isGeneratingRules
    /\ NoModal
    /\ isGeneratingRules' = TRUE
    /\ generation' = <<[transactions |-> transactions, rules |-> rules,
                        response |-> [kind |-> "pending", rawRules |-> <<>>],
                        confirmed |-> FALSE]>>
    /\ pc' = "generating"
    /\ UNCHANGED <<transactions, rules, settings, now, host, categories, upload,
                   sanitizationProposal, sanitizationResult, bulkUpdateProposal,
                   engineVars, mapperVars, callVars, bulkVars, aiVars, wizardVars,
                   mergeVars, sessionVars>>

\* generateContent comes back
GenerateRulesRespond ==
    /\ pc = "generating"
    /\ \E r \in RuleResponses :
          generation' = <<[generation[1] EXCEPT !.response = r]>>
    /\ pc' = "rules returned"
    /\ UNCHANGED <<transactions, rules, settings, now, host, categories, upload,
                   sanitizationProposal, sanitizationResult, isGeneratingRules,
                   bulkUpdateProposal, engineVars, mapperVars, callVars, bulkVars,
                   aiVars, wizardVars, mergeVars, sessionVars>>

\* handleGenerateRules after its await: the unique new rules are added and,
\* when the user confirms, applied; the finally block resets
\* isGeneratingRules
GenerateRulesDone ==
    /\ pc = "rules returned"
    /\ \E confirmed \in BOOLEAN :
          LET newRules == generateRulesFromHistory(generation[1].transactions,
                                                   generation[1].response)
              uniqueNewRules == UniqueNewRules(newRules, generation[1].rules)
          IN  IF Len(newRules) > 0
              THEN /\ rules' = rules \o uniqueNewRules
                   /\ transactions' =
                          IF confirmed
                          THEN applyRulesToTransactions(transactions, uniqueNewRules).value
                          ELSE transactions
                   /\ generation' = <<[generation[1] EXCEPT !.confirmed = confirmed]>>
              ELSE /\ ~confirmed
                   /\ UNCHANGED <<rules, transactions, generation>>
    /\ isGeneratingRules' = FALSE
    /\ pc' = "generated"
    /\ UNCHANGED <<settings, now, host, categories, upload,
                   sanitizationProposal, sanitizationResult, bulkUpdateProposal,
                   engineVars, mapperVars, callVars, bulkVars, aiVars, wizardVars,
                   mergeVars, sessionVars>>

NextGenerate == GenerateRulesStart \/ GenerateRulesRespond \/ GenerateRulesDone

SpecGenerate == InitGenerate /\ [][NextGenerate]_vars

\* C30: if before handleGenerateRules the transactions equal
\* applyRulesToTransactions(transactions, rules), then after the generated
\* rules are added and the user confirms applying them the transactions equal
\* applyRulesToTransactions(transactions, all rules of the session).
C30_GeneratedRulesKeepLongestWins ==
    [][(/\ pc = "rules returned"
        /\ pc' = "generated"
        /\ generation'[1].confirmed
        /\ transactions = applyRulesToTransactions(transactions, rules).value) =>
          transactions' = applyRulesToTransactions(transactions, rules').value]_vars

====
